---- MODULE Spec2Model ----
(***************************************************************************)
(* A model of rust-monster's genetic-algorithm core: GAPopulation (ranking *)
(* orders, statistics, swap, clone/eq), the selectors (Rank, RouletteWheel) *)
(* and GAStatistics (the all-time-best Archive and its merge).              *)
(*                                                                         *)
(* f32 values are modelled as extended rationals <<n, d>>:                  *)
(*   d > 0  : the finite value n/d, in lowest terms;                        *)
(*   <<1,0>> : +inf,  <<-1,0>> : -inf,  <<0,0>> : NaN.                      *)
(* Rounding is not modelled; inf/NaN propagation and comparison are.        *)
(***************************************************************************)
EXTENDS Integers, Sequences, FiniteSets, TLC

VARIABLES
    pop,        \* the GAPopulation under test (a record, see NewPopulation)
    ret,        \* what the last call returned (a record tagged by .op)
    selector,   \* the selector (a record, see GARankSelectorNew, GARouletteWheelSelectorNew)
    gastats,    \* the GAStatistics tracker (a record, see GAStatisticsNew)
    args,       \* what the engines are constructed from (see InitGA)
    sga,        \* the SimpleGeneticAlgorithm of each run (see NewWithEvalCtx)
    ctx         \* the GARandomCtx of each run (see FromSeed)

vars == <<pop, ret, selector, gastats, args, sga, ctx>>

\* the engine and the random contexts, which the calls on a population, a
\* selector or a tracker alone never touch
engine == <<args, sga, ctx>>

\* no engine and no random context have been constructed
NoEngine ==
    /\ args = <<>>
    /\ sga = <<>>
    /\ ctx = <<>>

----------------------------------------------------------------------------
(* Bounds of the model *)

\* largest population size drawn for an input population
MaxPop == 3

\* largest population size drawn where an Archive is merged with it (the
\* concrete merge scenario of eleven individuals comes on top of it)
MaxArchivePop == 2
MaxTrackPop == 2
MaxCalls == 3

----------------------------------------------------------------------------
(* f32 as extended rationals *)

Abs(i) == IF i < 0 THEN -i ELSE i

Sign(i) == IF i < 0 THEN -1 ELSE IF i > 0 THEN 1 ELSE 0

RECURSIVE GCD(_, _)
GCD(a, b) == IF b = 0 THEN a ELSE GCD(b, a % b)

\* the f32 with value n/d (d may be 0 or negative), in canonical form
Norm(n, d) ==
    IF d = 0 THEN <<Sign(n), 0>>
    ELSE LET g == GCD(Abs(n), Abs(d))
             s == IF d < 0 THEN -1 ELSE 1
         IN  <<(s * n) \div g, (s * d) \div g>>

F(i) == <<i, 1>>
NaN == <<0, 0>>
PInf == <<1, 0>>
NInf == <<-1, 0>>

IsNaN(a) == a = NaN
IsInf(a) == a[2] = 0 /\ a[1] # 0
IsFinite(a) == a[2] > 0

FNeg(a) == <<-a[1], a[2]>>

FAdd(a, b) ==
    IF IsNaN(a) \/ IsNaN(b) THEN NaN
    ELSE IF IsInf(a) /\ IsInf(b) THEN (IF a = b THEN a ELSE NaN)
    ELSE IF IsInf(a) THEN a
    ELSE IF IsInf(b) THEN b
    ELSE LET g == GCD(a[2], b[2])
         IN  Norm(a[1] * (b[2] \div g) + b[1] * (a[2] \div g), (a[2] \div g) * b[2])

FSub(a, b) == FAdd(a, FNeg(b))

\* inf * 0 = NaN falls out of Norm(0, 0)
FMul(a, b) == Norm(a[1] * b[1], a[2] * b[2])

\* x / 0 = +-inf, 0 / 0 = NaN, x / inf = 0
FDiv(a, b) == Norm(a[1] * b[2], a[2] * b[1])

\* a < b; false when either is NaN
FLt(a, b) ==
    IF IsNaN(a) \/ IsNaN(b) THEN FALSE
    ELSE IF IsInf(a) /\ IsInf(b) THEN a[1] < b[1]
    ELSE a[1] * b[2] < b[1] * a[2]

FGt(a, b) == FLt(b, a)

\* a == b; false when either is NaN
FEq(a, b) == ~IsNaN(a) /\ ~IsNaN(b) /\ a = b

FGe(a, b) == FGt(a, b) \/ FEq(a, b)
FLe(a, b) == FLt(a, b) \/ FEq(a, b)

\* f32::max / f32::min: a NaN operand yields the other operand
FMax(a, b) == IF IsNaN(a) THEN b ELSE IF IsNaN(b) THEN a ELSE IF FLt(a, b) THEN b ELSE a
FMin(a, b) == IF IsNaN(a) THEN b ELSE IF IsNaN(b) THEN a ELSE IF FLt(b, a) THEN b ELSE a

FAbs(a) == <<Abs(a[1]), a[2]>>

\* floor of the square root of a natural number, by bisection on [lo, hi)
RECURSIVE ISqrtIn(_, _, _)
ISqrtIn(x, lo, hi) ==
    IF hi - lo <= 1 THEN lo
    ELSE LET mid == (lo + hi) \div 2
         IN  IF mid * mid <= x THEN ISqrtIn(x, mid, hi) ELSE ISqrtIn(x, lo, mid)

\* the root of a 32-bit integer is below 46341
ISqrt(x) == ISqrtIn(x, 0, IF x < 46341 THEN x + 1 ELSE 46341)

\* f32::sqrt, to two decimal places: sqrt(NaN) = sqrt(negative) = NaN, sqrt(+inf) = +inf
FSqrt(a) ==
    IF IsNaN(a) \/ a[1] < 0 THEN NaN
    ELSE IF IsInf(a) THEN a
    ELSE LET whole == a[1] \div a[2]
             frac == a[1] % a[2]
         IN  Norm(ISqrt(whole * 10000 + (frac * 10000) \div a[2]), 100)

\* f32::partial_cmp as Option<Ordering>
PartialCmp(a, b) ==
    IF FLt(a, b) THEN "Less"
    ELSE IF FLt(b, a) THEN "Greater"
    ELSE IF FEq(a, b) THEN "Equal"
    ELSE "None"

\* Option::unwrap_or(Ordering::Equal)
UnwrapOrEqual(o) == IF o = "None" THEN "Equal" ELSE o

----------------------------------------------------------------------------
(* Option<T>: None is <<>>, Some(x) is <<x>> *)

None == <<>>
Some(x) == <<x>>
IsSome(o) == Len(o) = 1
Unwrap(o) == o[1]

----------------------------------------------------------------------------
(* GAIndividual: the two scores the core reads and writes *)

Individual(r, f) == [raw |-> r, fitness |-> f]

\* GATestIndividual::new(rs): fitness is the inverse of the raw score
GATestIndividualNew(rs) == Individual(rs, FDiv(F(1), rs))

\* #[derive(PartialEq)] on an individual: field-wise f32 equality
IndEq(a, b) == FEq(a.raw, b.raw) /\ FEq(a.fitness, b.fitness)

----------------------------------------------------------------------------
(* GAPopulation *)

LowIsBest == "LowIsBest"
HighIsBest == "HighIsBest"
SortOrders == {LowIsBest, HighIsBest}

Raw == "Raw"
Fitness == "Fitness"

NewPopulation(p, order) ==
    [ population |-> p,
      sort_order |-> order,
      population_order_raw |-> <<>>,
      is_raw_sorted |-> FALSE,
      population_order_fitness |-> <<>>,
      is_fitness_sorted |-> FALSE,
      statistics |-> None ]

Size(P) == Len(P.population)

OrderOf(P, basis) ==
    IF basis = Raw THEN P.population_order_raw ELSE P.population_order_fitness

\* individual(i, basis) indexes order[i] and then population[order[i]]:
\* it panics unless both indexes are in bounds (i is 0-based)
CanIndex(P, i, basis) ==
    /\ 0 <= i
    /\ i < Len(OrderOf(P, basis))
    /\ OrderOf(P, basis)[i + 1] < Size(P)

IndividualAt(P, i, basis) == P.population[OrderOf(P, basis)[i + 1] + 1]

BestByRawScore(P) == IndividualAt(P, 0, Raw)
WorstByRawScore(P) == IndividualAt(P, Size(P) - 1, Raw)
KthBestByRawScore(P, k) == IndividualAt(P, k, Raw)
BestByFitnessScore(P) == IndividualAt(P, 0, Fitness)
Worst(P) == IndividualAt(P, Size(P) - 1, Fitness)

Score(ind, basis) == IF basis = Raw THEN ind.raw ELSE ind.fitness

\* a comparison that ranks ascending whatever the sort order
SortCmpAscending(P, basis, s1, s2) ==
    UnwrapOrEqual(PartialCmp(Score(P.population[s1 + 1], basis),
                             Score(P.population[s2 + 1], basis)))

\* the closure handed to sort_by: ascending for LowIsBest, descending
\* (operands exchanged) for HighIsBest; an unordered pair compares Equal
SortCmp(P, basis, s1, s2) ==
    LET k1 == Score(P.population[s1 + 1], basis)
        k2 == Score(P.population[s2 + 1], basis)
    IN  IF P.sort_order = LowIsBest
        THEN UnwrapOrEqual(PartialCmp(k1, k2))
        ELSE UnwrapOrEqual(PartialCmp(k2, k1))

\* one step of the stable insertion sort: x moves left past every element
\* it compares Less than, and stops at the first it does not
InsertTail(P, basis, s, x) ==
    LET n == Len(s)
        stops == {j \in 1..n : SortCmp(P, basis, x, s[j]) # "Less"}
        j == IF stops = {} THEN 0 ELSE CHOOSE m \in stops : \A o \in stops : o <= m
    IN  SubSeq(s, 1, j) \o <<x>> \o SubSeq(s, j + 1, n)

RECURSIVE SortByFrom(_, _, _, _)
SortByFrom(P, basis, done, k) ==
    IF k >= Size(P) THEN done
    ELSE SortByFrom(P, basis, InsertTail(P, basis, done, k), k + 1)

\* a ranking that leaves the indexes in the order of the backing vector
SortByUnsorted(P, basis) == [i \in 1..Size(P) |-> i - 1]

\* Vec::from_iter(0..size) sorted with sort_by
SortBy(P, basis) == SortByFrom(P, basis, <<>>, 0)

\* a sort_int that sets the sorted flag and leaves the ranking as it was
SortIntFlagOnly(P, force_sort, basis) ==
    IF basis = Raw
    THEN [P EXCEPT !.is_raw_sorted = TRUE]
    ELSE [P EXCEPT !.is_fitness_sorted = TRUE]

SortInt(P, force_sort, basis) ==
    IF basis = Raw
    THEN IF (~P.is_raw_sorted) \/ force_sort
         THEN [P EXCEPT !.population_order_raw = SortBy(P, Raw),
                        !.is_raw_sorted = TRUE]
         ELSE P
    ELSE IF (~P.is_fitness_sorted) \/ force_sort
         THEN [P EXCEPT !.population_order_fitness = SortBy(P, Fitness),
                        !.is_fitness_sorted = TRUE]
         ELSE P

Sort(P) == SortInt(SortInt(P, FALSE, Fitness), FALSE, Raw)

ForceSort(P) == SortInt(SortInt(P, TRUE, Fitness), TRUE, Raw)

\* a set_order_and_sort that leaves the sorted flags as they are
SetOrderKeepFlags(P, order) ==
    IF P.sort_order # order
    THEN Sort([P EXCEPT !.sort_order = order])
    ELSE P

SetOrderAndSort(P, order) ==
    IF P.sort_order # order
    THEN Sort([P EXCEPT !.sort_order = order,
                        !.is_raw_sorted = FALSE,
                        !.is_fitness_sorted = FALSE])
    ELSE P

\* raw_score_iterator / fitness_score_iterator, collected
CanIterate(P, basis) == \A i \in 0..(Size(P) - 1) : CanIndex(P, i, basis)
ScoreIterator(P, basis) == [i \in 1..Size(P) |-> IndividualAt(P, i - 1, basis)]

\* swap_individual: worst() panics on an empty or never-sorted population
SwapCanRun(P) == Size(P) > 0 /\ CanIndex(P, Size(P) - 1, Fitness)

\* a swap condition that also accepts a candidate tied with the worst
ShouldSwapOnTie(P, new_individual) ==
    IF P.sort_order = LowIsBest
    THEN FLe(new_individual.fitness, Worst(P).fitness)
    ELSE FGe(new_individual.fitness, Worst(P).fitness)

ShouldSwap(P, new_individual) ==
    IF P.sort_order = LowIsBest
    THEN FLt(new_individual.fitness, Worst(P).fitness)
    ELSE FGt(new_individual.fitness, Worst(P).fitness)

SwapIndividual(P, new_individual) ==
    IF ShouldSwap(P, new_individual)
    THEN [P EXCEPT !.population[P.population_order_fitness[Size(P)] + 1] = new_individual,
                   !.is_raw_sorted = FALSE,
                   !.is_fitness_sorted = FALSE]
    ELSE P

----------------------------------------------------------------------------
(* GAPopulationStats and GAPopulation::statistics *)

GAPopulationStatsNew ==
    [ raw_sum |-> F(0), raw_avg |-> F(0), raw_max |-> NInf, raw_min |-> PInf,
      raw_var |-> F(0), raw_std_dev |-> F(0),
      fitness_sum |-> F(0), fitness_avg |-> F(0), fitness_max |-> NInf,
      fitness_min |-> PInf, fitness_var |-> F(0), fitness_std_dev |-> F(0) ]

\* first pass: sum, max and min over the backing vector, in its order
RECURSIVE StatsPass1(_, _, _)
StatsPass1(p, k, stats) ==
    IF k > Len(p) THEN stats
    ELSE StatsPass1(p, k + 1,
            [stats EXCEPT !.raw_sum = FAdd(@, p[k].raw),
                          !.raw_max = FMax(@, p[k].raw),
                          !.raw_min = FMin(@, p[k].raw),
                          !.fitness_sum = FAdd(@, p[k].fitness),
                          !.fitness_max = FMax(@, p[k].fitness),
                          !.fitness_min = FMin(@, p[k].fitness)])

\* second pass: squared deviations from the averages of the first pass
RECURSIVE StatsPass2(_, _, _)
StatsPass2(p, k, stats) ==
    IF k > Len(p) THEN stats
    ELSE StatsPass2(p, k + 1,
            [stats EXCEPT !.raw_var =
                              FAdd(@, FMul(FSub(p[k].raw, stats.raw_avg),
                                           FSub(p[k].raw, stats.raw_avg))),
                          !.fitness_var =
                              FAdd(@, FMul(FSub(p[k].fitness, stats.fitness_avg),
                                           FSub(p[k].fitness, stats.fitness_avg)))])

\* statistics whose variances divide by size instead of size - 1
ComputeStatsBiased(p) ==
    LET size == Len(p)
        s1 == StatsPass1(p, 1, GAPopulationStatsNew)
        s2 == [s1 EXCEPT !.raw_avg = FDiv(s1.raw_sum, F(size)),
                         !.fitness_avg = FDiv(s1.fitness_sum, F(size))]
        s3 == IF size > 1
              THEN LET t == StatsPass2(p, 1, s2)
                   IN  [t EXCEPT !.raw_var = FDiv(@, F(size)),
                                 !.fitness_var = FDiv(@, F(size))]
              ELSE s2
    IN  [s3 EXCEPT !.raw_std_dev = FSqrt(s3.raw_var),
                   !.fitness_std_dev = FSqrt(s3.fitness_var)]

ComputeStats(p) ==
    LET size == Len(p)
        s1 == StatsPass1(p, 1, GAPopulationStatsNew)
        s2 == [s1 EXCEPT !.raw_avg = FDiv(s1.raw_sum, F(size)),
                         !.fitness_avg = FDiv(s1.fitness_sum, F(size))]
        s3 == IF size > 1
              THEN LET t == StatsPass2(p, 1, s2)
                   IN  [t EXCEPT !.raw_var = FDiv(@, F(size - 1)),
                                 !.fitness_var = FDiv(@, F(size - 1))]
              ELSE s2
    IN  [s3 EXCEPT !.raw_std_dev = FSqrt(s3.raw_var),
                   !.fitness_std_dev = FSqrt(s3.fitness_var)]

\* statistics(): the value returned
StatisticsVal(P) ==
    IF IsSome(P.statistics) THEN P.statistics
    ELSE IF Size(P) = 0 THEN None
    ELSE Some(ComputeStats(P.population))

\* a statistics() that memoizes the statistics of GAPopulationStats::new
\* in place of the ones it computed
StatisticsPopForgetful(P) == [P EXCEPT !.statistics = Some(GAPopulationStatsNew)]

\* statistics(): the population afterwards (the memo is set on first computation)
StatisticsPop(P) ==
    IF IsSome(P.statistics) THEN P
    ELSE IF Size(P) = 0 THEN P
    ELSE [P EXCEPT !.statistics = Some(ComputeStats(P.population))]

ResetStatistics(P) == [P EXCEPT !.statistics = None]

\* (a - b).abs() < error, with error = 0.00001
Near(a, b) == FLt(FAbs(FSub(a, b)), Norm(1, 100000))

\* PartialEq for GAPopulationStats
StatsEq(a, b) ==
    /\ Near(a.raw_sum, b.raw_sum)
    /\ Near(a.raw_avg, b.raw_avg)
    /\ Near(a.raw_max, b.raw_max)
    /\ Near(a.raw_min, b.raw_min)
    /\ Near(a.raw_var, b.raw_var)
    /\ Near(a.raw_std_dev, b.raw_std_dev)
    /\ Near(a.fitness_sum, b.fitness_sum)
    /\ Near(a.fitness_avg, b.fitness_avg)
    /\ Near(a.fitness_max, b.fitness_max)
    /\ Near(a.fitness_min, b.fitness_min)
    /\ Near(a.fitness_var, b.fitness_var)
    /\ Near(a.fitness_std_dev, b.fitness_std_dev)

\* PartialEq for Option<GAPopulationStats>
OptStatsEq(a, b) ==
    IF IsSome(a) /\ IsSome(b) THEN StatsEq(Unwrap(a), Unwrap(b))
    ELSE IsSome(a) = IsSome(b)

\* Clone for GAPopulation: every field is cloned
ClonePopulation(P) ==
    [ population |-> P.population,
      sort_order |-> P.sort_order,
      population_order_raw |-> P.population_order_raw,
      is_raw_sorted |-> P.is_raw_sorted,
      population_order_fitness |-> P.population_order_fitness,
      is_fitness_sorted |-> P.is_fitness_sorted,
      statistics |-> P.statistics ]

\* Iterator::eq over two collected iterations
SeqIndEq(s, t) ==
    /\ Len(s) = Len(t)
    /\ \A i \in 1..Len(s) : IndEq(s[i], t[i])

\* the conjuncts of GAPopulation::eq evaluated before the iterators
PopEqHead(A, B) ==
    /\ Size(A) = Size(B)
    /\ A.sort_order = B.sort_order
    /\ A.is_raw_sorted = B.is_raw_sorted
    /\ A.is_fitness_sorted = B.is_fitness_sorted
    /\ OptStatsEq(A.statistics, B.statistics)

\* eq() reaches the iterators only when the head holds (&& short-circuits),
\* and they panic when an order vector cannot be indexed
PopEqPanics(A, B) ==
    /\ PopEqHead(A, B)
    /\ \/ ~CanIterate(A, Raw) \/ ~CanIterate(B, Raw)
       \/ /\ SeqIndEq(ScoreIterator(A, Raw), ScoreIterator(B, Raw))
          /\ (~CanIterate(A, Fitness) \/ ~CanIterate(B, Fitness))

\* PartialEq for GAPopulation (when it does not panic)
PopEq(A, B) ==
    /\ PopEqHead(A, B)
    /\ SeqIndEq(ScoreIterator(A, Raw), ScoreIterator(B, Raw))
    /\ SeqIndEq(ScoreIterator(A, Fitness), ScoreIterator(B, Fitness))

----------------------------------------------------------------------------
(* Selectors: the score views, GARankSelector, GARouletteWheelSelector *)

\* GAScoreTypeBasedSelection: a view is the basis it ranks and scores by
\* (GARawScoreBasedSelection is Raw, GAScaledScoreBasedSelection is Fitness)
ScoreViews == {Raw, Fitness}

\* max_score / min_score: the view-score of the best / worst ranked individual
MaxScore(s, P) == Score(IndividualAt(P, 0, s), s)
MinScore(s, P) == Score(IndividualAt(P, Size(P) - 1, s), s)

GARankSelectorNew(s) ==
    [kind |-> "Rank", score_selection |-> s, wheel_proportions |-> <<>>]

\* a scan that counts every individual as sharing the best score
RankScanAll(P, s, best_score, i, best_count) ==
    [panic |-> FALSE, best_count |-> Size(P)]

\* the loop of GARankSelector::select from position i on: best_count grows
\* while the ranked scores equal best_score; individual(i) may panic
RECURSIVE RankScan(_, _, _, _, _)
RankScan(P, s, best_score, i, best_count) ==
    IF i >= Size(P) THEN [panic |-> FALSE, best_count |-> best_count]
    ELSE IF ~CanIndex(P, i, s) THEN [panic |-> TRUE, best_count |-> best_count]
    ELSE IF ~FEq(Score(IndividualAt(P, i, s), s), best_score)
         THEN [panic |-> FALSE, best_count |-> best_count]
    ELSE RankScan(P, s, best_score, i + 1, best_count + 1)

\* max_score panics when position 0 cannot be indexed
RankSelectPanics(P, s) ==
    \/ ~CanIndex(P, 0, s)
    \/ RankScan(P, s, MaxScore(s, P), 1, 1).panic

RankBestCount(P, s) == RankScan(P, s, MaxScore(s, P), 1, 1).best_count

\* vec![0.0; p_size]
GARouletteWheelSelectorNew(s, p_size) ==
    [kind |-> "RouletteWheel", score_selection |-> s,
     wheel_proportions |-> [i \in 1..p_size |-> F(0)]]

\* Vec::resize(n, 0.0)
Resize(wheel, n) ==
    [i \in 1..n |-> IF i <= Len(wheel) THEN wheel[i] ELSE F(0)]

\* the increment of the slot at rank position i (0-based)
WheelIncrement(P, s, i, max_score, min_score) ==
    IF P.sort_order = HighIsBest
    THEN Score(IndividualAt(P, i, s), s)
    ELSE FAdd(FAdd(FNeg(Score(IndividualAt(P, i, s), s)), max_score), min_score)

\* the prefix sums written into the slots 0 .. wheel_slots-1
RECURSIVE WheelSums(_, _, _, _, _, _)
WheelSums(P, s, max_score, min_score, i, wheel) ==
    IF i >= Len(wheel) THEN wheel
    ELSE WheelSums(P, s, max_score, min_score, i + 1,
            [wheel EXCEPT ![i + 1] =
                IF i = 0 THEN WheelIncrement(P, s, 0, max_score, min_score)
                ELSE FAdd(WheelIncrement(P, s, i, max_score, min_score), wheel[i])])

\* every slot divided, in turn, by the last slot: the last by itself
WheelNormalize(wheel) ==
    [i \in 1..Len(wheel) |-> FDiv(wheel[i], wheel[Len(wheel)])]

\* the sign test of a wheel that takes no mixed-sign scores
SingleSignedTest(max_score, min_score) ==
    \/ FGt(max_score, F(0)) /\ FGe(min_score, F(0))
    \/ FLe(max_score, F(0)) /\ FLt(min_score, F(0))

\* an update whose last branch clears the slots
RouletteWheelProportionsCleared(wheel, s, P) ==
    LET wheel_slots == Len(wheel)
        max_score == MaxScore(s, P)
        min_score == MinScore(s, P)
    IN  IF FEq(max_score, min_score)
        THEN [i \in 1..wheel_slots |-> FDiv(F(i), F(wheel_slots))]
        ELSE IF SingleSignedTest(max_score, min_score)
        THEN WheelNormalize(WheelSums(P, s, max_score, min_score, 0, wheel))
        ELSE [i \in 1..wheel_slots |-> F(0)]

\* GARouletteWheelSelector::update after the resize and the sort, on a
\* population that max_score and min_score can index
RouletteWheelProportions(wheel, s, P) ==
    LET wheel_slots == Len(wheel)
        max_score == MaxScore(s, P)
        min_score == MinScore(s, P)
    IN  IF FEq(max_score, min_score)
        THEN [i \in 1..wheel_slots |-> FDiv(F(i), F(wheel_slots))]
        ELSE IF SingleSignedTest(max_score, min_score)
        THEN WheelNormalize(WheelSums(P, s, max_score, min_score, 0, wheel))
        ELSE wheel

\* the while loop of GARouletteWheelSelector::select: the value of lower
\* when upper > lower stops holding
RECURSIVE WheelSearch(_, _, _, _)
WheelSearch(wheel, cutoff, lower, upper) ==
    IF upper > lower
    THEN LET i == lower + (upper - lower) \div 2
         IN  IF FGt(wheel[i + 1], cutoff)
             THEN WheelSearch(wheel, cutoff, lower, IF i > 0 THEN i - 1 ELSE 0)
             ELSE WheelSearch(wheel, cutoff, i + 1, upper)
    ELSE lower

\* cmp::min(wheel_slots-1, lower) after the loop, on a wheel of at least one slot
RouletteWheelLower(wheel, cutoff) ==
    IF WheelSearch(wheel, cutoff, 0, Len(wheel) - 1) < Len(wheel) - 1
    THEN WheelSearch(wheel, cutoff, 0, Len(wheel) - 1)
    ELSE Len(wheel) - 1

\* select panics on a wheel of no slots (wheel_slots-1 underflows; where it
\* wraps, the assert on i fails) and where individual(lower) cannot index
RouletteWheelSelectPanics(wheel, s, P, cutoff) ==
    \/ Len(wheel) = 0
    \/ ~CanIndex(P, RouletteWheelLower(wheel, cutoff), s)

\* GATournamentSelector::new: the selector owns a RouletteWheel selector
GATournamentSelectorNew(s, p_size) ==
    [kind |-> "Tournament", score_selection |-> s,
     wheel_proportions |-> [i \in 1..p_size |-> F(0)]]

\* the rank position GATournamentSelector::select returns, of the positions
\* lower1 and lower2 of its first and second draw
TournamentPick(P, s, lower1, lower2) ==
    IF FGe(Score(IndividualAt(P, lower1, s), s), Score(IndividualAt(P, lower2, s), s))
    THEN (IF P.sort_order = HighIsBest THEN lower1 ELSE lower2)
    ELSE (IF P.sort_order = HighIsBest THEN lower2 ELSE lower1)

----------------------------------------------------------------------------
(* GAStatistics: the tracker and its all-time-best Archive *)

GAStatisticsNew ==
    [ cur_generation |-> 0,
      alltime_best_pop |-> None,
      alltime_max_score |-> F(0),
      alltime_min_score |-> F(0),
      on_performance |-> F(0),
      off_max_performance |-> F(0),
      off_min_performance |-> F(0),
      hist_stats |-> <<>> ]

\* (perf * (cur_generation-1) + x) / cur_generation
RunningAverage(perf, cur_generation, x) ==
    FDiv(FAdd(FMul(perf, F(cur_generation - 1)), x), F(cur_generation))

\* the match of set_best on what pop.statistics() returned
SetBestMatch(G, P, returned) ==
    LET stats == Unwrap(returned)
    IN  IF returned = None THEN G
        ELSE [G EXCEPT !.cur_generation = 1,
                       !.alltime_max_score = FMax(@, stats.raw_max),
                       !.alltime_min_score = FMin(@, stats.raw_min),
                       !.on_performance = RunningAverage(@, 1, stats.raw_avg),
                       !.off_max_performance = RunningAverage(@, 1, stats.raw_max),
                       !.off_min_performance = RunningAverage(@, 1, stats.raw_min),
                       !.alltime_best_pop = Some([P EXCEPT !.statistics = returned]),
                       !.hist_stats = Append(@, stats)]

\* set_best(pop): pop is moved in, its statistics computed on the way
SetBest(G, P) == SetBestMatch(G, P, StatisticsVal(P))

\* the outcome of a step of update_best: it panicked, or what it has built so far
Aborted == [panic |-> TRUE, val |-> None]
Merged(B) == [panic |-> FALSE, val |-> B]

\* a comparison that reads Greater as the larger raw score under either order
CmpHighIsBest(order, l_raw, r_raw) == PartialCmp(l_raw, r_raw)

\* the inner match of the closure cmp: Greater and Less exchanged
Reversed(o) == IF o = "Greater" THEN "Less" ELSE IF o = "Less" THEN "Greater" ELSE o

\* the closure cmp of update_best: Greater reads as better under the order;
\* "None" is where partial_cmp(..).unwrap() panics
Cmp(order, l_raw, r_raw) ==
    IF order = HighIsBest THEN PartialCmp(l_raw, r_raw)
    ELSE Reversed(PartialCmp(l_raw, r_raw))

\* the while loop over k: the first rank of the Archive the candidate is not
\* worse than; -1 where kth_best_by_raw_score(k) or cmp panics (cmp is
\* evaluated before k < best_pop_size)
RECURSIVE SkipBetter(_, _, _, _)
SkipBetter(order, pop_ith_best_raw, B, k) ==
    IF ~CanIndex(B, k, Raw) THEN -1
    ELSE LET c == Cmp(order, pop_ith_best_raw, KthBestByRawScore(B, k).raw)
         IN  IF c = "None" THEN -1
             ELSE IF c = "Less" /\ k < Size(B)
                  THEN SkipBetter(order, pop_ith_best_raw, B, k + 1)
                  ELSE k

\* (*best_pop.worst_by_raw_score_mut()).clone_from(pop_ith_best); force_sort()
ReplaceWorstByRawScore(B, pop_ith_best) ==
    ForceSort([B EXCEPT !.population[B.population_order_raw[Size(B)] + 1] = pop_ith_best])

\* a for loop over j that does not stop at an identical individual
RECURSIVE InsertIdentical(_, _, _, _)
InsertIdentical(order, pop_ith_best, B, j) ==
    IF j >= Size(B) THEN Merged(B)
    ELSE IF ~CanIndex(B, j, Raw) THEN Aborted
    ELSE LET c == Cmp(order, pop_ith_best.raw, KthBestByRawScore(B, j).raw)
         IN  IF c = "None" THEN Aborted
             ELSE IF c = "Greater"
                  THEN IF CanIndex(B, Size(B) - 1, Raw)
                       THEN Merged(ReplaceWorstByRawScore(B, pop_ith_best))
                       ELSE Aborted
                  ELSE InsertIdentical(order, pop_ith_best, B, j + 1)

\* the for loop over j in k..best_pop_size: stop at an identical individual,
\* replace the worst at the first rank the candidate is better than
RECURSIVE InsertFrom(_, _, _, _)
InsertFrom(order, pop_ith_best, B, j) ==
    IF j >= Size(B) THEN Merged(B)
    ELSE IF ~CanIndex(B, j, Raw) THEN Aborted
    ELSE IF IndEq(pop_ith_best, KthBestByRawScore(B, j)) THEN Merged(B)
    ELSE LET c == Cmp(order, pop_ith_best.raw, KthBestByRawScore(B, j).raw)
         IN  IF c = "None" THEN Aborted
             ELSE IF c = "Greater"
                  THEN IF CanIndex(B, Size(B) - 1, Raw)
                       THEN Merged(ReplaceWorstByRawScore(B, pop_ith_best))
                       ELSE Aborted
                  ELSE InsertFrom(order, pop_ith_best, B, j + 1)

\* a merge that takes the candidate at rank i and looks at no other
MergeOne(order, P, B, i) ==
    IF i >= Size(P) THEN Merged(B)
    ELSE IF ~CanIndex(P, i, Raw) \/ ~CanIndex(B, Size(B) - 1, Raw) THEN Aborted
    ELSE IF Cmp(order, KthBestByRawScore(P, i).raw, WorstByRawScore(B).raw) # "Greater"
         THEN Merged(B)
    ELSE LET k == SkipBetter(order, KthBestByRawScore(P, i).raw, B, 0)
         IN  IF k = -1 THEN Aborted
             ELSE InsertFrom(order, KthBestByRawScore(P, i), B, k)

\* the outer while loop from candidate i on: it runs while the candidate is
\* better than the worst of the Archive
RECURSIVE MergeFrom(_, _, _, _)
MergeFrom(order, P, B, i) ==
    IF i >= Size(P) THEN Merged(B)
    ELSE IF ~CanIndex(P, i, Raw) \/ ~CanIndex(B, Size(B) - 1, Raw) THEN Aborted
    ELSE LET c == Cmp(order, KthBestByRawScore(P, i).raw, WorstByRawScore(B).raw)
         IN  IF c = "None" THEN Aborted
             ELSE IF c # "Greater" THEN Merged(B)
             ELSE LET k == SkipBetter(order, KthBestByRawScore(P, i).raw, B, 0)
                  IN  IF k = -1 THEN Aborted
                      ELSE LET r == InsertFrom(order, KthBestByRawScore(P, i), B, k)
                           IN  IF r.panic THEN Aborted
                               ELSE MergeFrom(order, P, r.val, i + 1)

\* a branch for an Archive of one individual that also replaces on a tie
ReplaceSoleOnTie(order, P, B) ==
    IF ~CanIndex(B, 0, Raw) \/ ~CanIndex(P, 0, Raw) THEN Aborted
    ELSE IF \/ order = LowIsBest /\ FLe(BestByRawScore(P).raw, BestByRawScore(B).raw)
            \/ order = HighIsBest /\ FGe(BestByRawScore(P).raw, BestByRawScore(B).raw)
         THEN Merged([B EXCEPT !.population[B.population_order_raw[1] + 1] = BestByRawScore(P)])
         ELSE Merged(B)

\* the branch for an Archive of one individual
ReplaceSole(order, P, B) ==
    IF ~CanIndex(B, 0, Raw) \/ ~CanIndex(P, 0, Raw) THEN Aborted
    ELSE IF \/ order = LowIsBest /\ FLt(BestByRawScore(P).raw, BestByRawScore(B).raw)
            \/ order = HighIsBest /\ FGt(BestByRawScore(P).raw, BestByRawScore(B).raw)
         THEN Merged([B EXCEPT !.population[B.population_order_raw[1] + 1] = BestByRawScore(P)])
         ELSE Merged(B)

\* best_pop.reset_statistics(); best_pop.statistics(), reached unless the
\* merge panicked
RefreshStatistics(merged) ==
    IF merged.panic THEN Aborted
    ELSE Merged(StatisticsPop(ResetStatistics(merged.val)))

\* the two branches on best_pop_size, on an Archive B already in pop's order
MergeInto(B, P) ==
    IF Size(B) = 1
    THEN ReplaceSole(B.sort_order, P, B)
    ELSE MergeFrom(B.sort_order, P, B, 0)

\* update_best(pop) on an Archive best_pop that exists and is not empty
UpdateBestPop(best_pop, P) ==
    RefreshStatistics(MergeInto(IF P.sort_order # best_pop.sort_order
                                THEN SetOrderAndSort(best_pop, P.sort_order)
                                ELSE best_pop, P))

HasArchive(G) == IsSome(G.alltime_best_pop) /\ Size(Unwrap(G.alltime_best_pop)) > 0

\* Some(ref mut best_pop): the merge happens in place in the tracker
InPlace(G, updated) ==
    IF updated.panic THEN Aborted
    ELSE Merged([G EXCEPT !.alltime_best_pop = Some(updated.val)])

\* update_best(pop): nothing happens without a non-empty Archive
UpdateBest(G, P) ==
    IF HasArchive(G)
    THEN InPlace(G, UpdateBestPop(Unwrap(G.alltime_best_pop), P))
    ELSE Merged(G)

\* the Some(stats) arm of update up to and including update_best: the
\* counter and the running scores, then the merge into the Archive
UpdateScores(G, P, stats) ==
    UpdateBest([G EXCEPT !.cur_generation = @ + 1,
                         !.alltime_max_score = FMax(@, stats.raw_max),
                         !.alltime_min_score = FMin(@, stats.raw_min),
                         !.on_performance =
                             RunningAverage(@, G.cur_generation + 1, stats.raw_avg),
                         !.off_max_performance =
                             RunningAverage(@, G.cur_generation + 1, stats.raw_max),
                         !.off_min_performance =
                             RunningAverage(@, G.cur_generation + 1, stats.raw_min)],
               P)

\* a push that puts the newest statistics first
PushStatsFront(updated, stats) ==
    IF updated.panic THEN Aborted
    ELSE Merged([updated.val EXCEPT !.hist_stats = <<stats>> \o @])

\* self.hist_stats.push(stats), reached unless update_best panicked
PushStats(updated, stats) ==
    IF updated.panic THEN Aborted
    ELSE Merged([updated.val EXCEPT !.hist_stats = Append(@, stats)])

\* the match of update on what pop.statistics() returned
UpdateMatch(G, P, returned) ==
    IF returned = None THEN Merged(G)
    ELSE PushStats(UpdateScores(G, StatisticsPop(P), Unwrap(returned)), Unwrap(returned))

\* update(pop)
Update(G, P) == UpdateMatch(G, P, StatisticsVal(P))

\* generation_statistics(nth_generation)
GenerationStatistics(G, nth_generation) ==
    IF nth_generation > 0 /\ nth_generation <= Len(G.hist_stats)
    THEN Some(G.hist_stats[nth_generation])
    ELSE None

----------------------------------------------------------------------------
(* Inputs *)

RawScores == {F(-1), F(0), F(2)}

\* the individuals the repository itself builds: GATestIndividual::new(rs),
\* whose fitness is 1/rs (+inf for rs = 0), and the same after NoScaling,
\* whose fitness is rs; and one whose fitness its client set with
\* set_fitness, tied with another individual of a different raw score
Individuals ==
    {GATestIndividualNew(r) : r \in RawScores}
        \cup {Individual(r, r) : r \in RawScores}
        \cup {Individual(F(-1), F(2))}

\* the vectors handed to GAPopulation::new
SeqsUpTo(S, n) == UNION {[1..k -> S] : k \in 0..n}

\* the individuals of the populations an Archive is merged with: four raw
\* scores, so that an Archive of two and a population of two can be pairwise
\* distinct, and one more individual that shares a raw score with another
ArchiveRawScores == {F(-1), F(1), F(2), F(3)}

ArchiveIndividuals ==
    {GATestIndividualNew(r) : r \in ArchiveRawScores} \cup {Individual(F(2), F(2))}

\* the raw scores of test_update_best_population's merge of two populations
EvenRawScores ==
    <<F(-10), F(-8), F(-6), F(-4), F(-2), Norm(1, 10), F(2), F(4), F(6), F(8), F(10)>>

OddRawScores ==
    <<F(-9), F(-7), F(-5), F(-3), F(-1), F(1), F(3), F(5), F(7), F(9), F(11)>>

\* the individuals of that merge carry their raw score as fitness, as after
\* GANoScaling: exact statistics of the fitness 1/raw of eleven individuals
\* do not fit 32-bit integers
ScenarioIndividuals(raw_scores) ==
    [i \in 1..Len(raw_scores) |-> Individual(raw_scores[i], raw_scores[i])]

\* vectors of pairwise different individuals
DistinctSeqsUpTo(S, n) ==
    {p \in SeqsUpTo(S, n) : \A i, j \in 1..Len(p) : i # j => p[i] # p[j]}

\* the populations handed to update_best, as built by GAPopulation::new
ArchivePopulations ==
    {NewPopulation(p, o) :
        p \in DistinctSeqsUpTo(ArchiveIndividuals, MaxArchivePop), o \in SortOrders}
        \cup {NewPopulation(ScenarioIndividuals(OddRawScores), o) : o \in SortOrders}

\* the populations handed to set_best: built by GAPopulation::new and then
\* either sorted or not
ArchiveSeeds ==
    LET fresh == {NewPopulation(p, o) :
                    p \in DistinctSeqsUpTo(ArchiveIndividuals, MaxArchivePop), o \in SortOrders}
    IN  fresh \cup {Sort(q) : q \in fresh}
              \cup {Sort(NewPopulation(ScenarioIndividuals(EvenRawScores), o)) : o \in SortOrders}

\* the values rng_ctx.gen::<f32>() is let to return, all in [0, 1)
Cutoffs == {F(0), Norm(1, 2), Norm(3, 4)}

\* the populations handed to the tracker: sorted, as update_best needs them,
\* the one of no individuals among them
TrackRawScores == {F(-1), F(2)}

TrackIndividuals == {GATestIndividualNew(r) : r \in TrackRawScores}

TrackPopulations ==
    {Sort(NewPopulation(p, o)) :
        p \in DistinctSeqsUpTo(TrackIndividuals, MaxTrackPop), o \in SortOrders}

----------------------------------------------------------------------------
(* Calls and what they return *)

Ret(op, arg, val) == [op |-> op, arg |-> arg, val |-> val, panic |-> FALSE]

\* a panic aborts the program: no call follows it
Panic(op, arg) == [op |-> op, arg |-> arg, val |-> None, panic |-> TRUE]

NoSelector == [kind |-> "None", score_selection |-> Raw, wheel_proportions |-> <<>>]
NoStats == <<>>

----------------------------------------------------------------------------
(* The population specification: one GAPopulation, ranked and swapped *)

InitPop ==
    /\ pop \in {NewPopulation(p, o) : p \in SeqsUpTo(Individuals, MaxPop), o \in SortOrders}
    /\ ret = Ret("new", None, None)
    /\ selector = NoSelector
    /\ gastats = NoStats
    /\ NoEngine

DoSort ==
    /\ ~ret.panic
    /\ pop' = Sort(pop)
    /\ ret' = Ret("sort", None, None)
    /\ UNCHANGED <<selector, gastats>>
    /\ UNCHANGED engine

DoForceSort ==
    /\ ~ret.panic
    /\ pop' = ForceSort(pop)
    /\ ret' = Ret("force_sort", None, None)
    /\ UNCHANGED <<selector, gastats>>
    /\ UNCHANGED engine

DoSetOrderAndSort ==
    /\ ~ret.panic
    /\ \E order \in SortOrders :
          /\ pop' = SetOrderAndSort(pop, order)
          /\ ret' = Ret("set_order_and_sort", order, None)
    /\ UNCHANGED <<selector, gastats>>
    /\ UNCHANGED engine

DoSwapIndividual ==
    /\ ~ret.panic
    /\ \E c \in Individuals :
          IF SwapCanRun(pop)
          THEN /\ pop' = SwapIndividual(pop, c)
               /\ ret' = Ret("swap_individual", c, None)
          ELSE /\ pop' = pop
               /\ ret' = Panic("swap_individual", c)
    /\ UNCHANGED <<selector, gastats>>
    /\ UNCHANGED engine

NextPop ==
    \/ DoSort
    \/ DoForceSort
    \/ DoSetOrderAndSort
    \/ DoSwapIndividual

SpecPop == InitPop /\ [][NextPop]_vars

----------------------------------------------------------------------------
(* The statistics specification: one GAPopulation, its memoized statistics *)
(* and its comparison with its own clone                                   *)

\* arg tells whether the memo was already there; val is the value returned
DoStatistics ==
    /\ ~ret.panic
    /\ pop' = StatisticsPop(pop)
    /\ ret' = Ret("statistics", IsSome(pop.statistics), StatisticsVal(pop))
    /\ UNCHANGED <<selector, gastats>>
    /\ UNCHANGED engine

\* pop == pop.clone()
DoCloneEq ==
    /\ ~ret.panic
    /\ pop' = pop
    /\ ret' = IF PopEqPanics(pop, ClonePopulation(pop))
              THEN Panic("clone_eq", None)
              ELSE Ret("clone_eq", None, PopEq(pop, ClonePopulation(pop)))
    /\ UNCHANGED <<selector, gastats>>
    /\ UNCHANGED engine

NextStat ==
    \/ DoSort
    \/ DoForceSort
    \/ DoStatistics
    \/ DoCloneEq

SpecStat == InitPop /\ [][NextStat]_vars

----------------------------------------------------------------------------
(* The selector specification: one GAPopulation and one selector on it *)

InitSel ==
    /\ pop \in {NewPopulation(p, o) : p \in SeqsUpTo(Individuals, MaxPop), o \in SortOrders}
    /\ ret = Ret("new", None, None)
    /\ selector \in {GARankSelectorNew(s) : s \in ScoreViews}
                      \cup {GARouletteWheelSelectorNew(s, n) : s \in ScoreViews, n \in 0..MaxPop}
    /\ gastats = NoStats
    /\ NoEngine

\* GARankSelector::update
DoRankUpdate ==
    /\ ~ret.panic
    /\ selector.kind = "Rank"
    /\ pop' = Sort(pop)
    /\ ret' = Ret("rank_update", None, None)
    /\ UNCHANGED <<selector, gastats>>
    /\ UNCHANGED engine

\* GARankSelector::select: arg is the index gen_range(0, best_count) drew,
\* val the individual returned
DoRankSelect ==
    /\ ~ret.panic
    /\ selector.kind = "Rank"
    /\ IF RankSelectPanics(pop, selector.score_selection)
       THEN ret' = Panic("rank_select", None)
       ELSE \E drawn \in 0..(RankBestCount(pop, selector.score_selection) - 1) :
               ret' = IF CanIndex(pop, drawn, selector.score_selection)
                      THEN Ret("rank_select", drawn,
                               IndividualAt(pop, drawn, selector.score_selection))
                      ELSE Panic("rank_select", drawn)
    /\ UNCHANGED <<pop, selector, gastats>>
    /\ UNCHANGED engine

\* GARouletteWheelSelector::update: resize, sort, then the proportions;
\* max_score panics on a population of no individuals
DoRouletteWheelUpdate ==
    /\ ~ret.panic
    /\ selector.kind = "RouletteWheel"
    /\ pop' = Sort(pop)
    /\ LET resized == Resize(selector.wheel_proportions, Size(pop))
           s == selector.score_selection
       IN  IF CanIndex(Sort(pop), 0, s) /\ CanIndex(Sort(pop), Size(pop) - 1, s)
           THEN /\ selector' = [selector EXCEPT !.wheel_proportions =
                                    RouletteWheelProportions(resized, s, Sort(pop))]
                /\ ret' = Ret("roulette_update", None, None)
           ELSE /\ selector' = [selector EXCEPT !.wheel_proportions = resized]
                /\ ret' = Panic("roulette_update", None)
    /\ UNCHANGED gastats
    /\ UNCHANGED engine

NextSel ==
    \/ DoRankUpdate
    \/ DoRankSelect
    \/ DoRouletteWheelUpdate
    \/ DoSetOrderAndSort

SpecSel == InitSel /\ [][NextSel]_vars

----------------------------------------------------------------------------
(* The wheel specification: one population and one RouletteWheel or         *)
(* Tournament selector, updated and then drawn from                         *)

InitWheel ==
    /\ pop \in {NewPopulation(p, o) : p \in SeqsUpTo(Individuals, MaxPop), o \in SortOrders}
    /\ ret = Ret("new", None, None)
    /\ selector \in {GARouletteWheelSelectorNew(s, n) : s \in ScoreViews, n \in {0, MaxPop}}
                      \cup {GATournamentSelectorNew(s, n) : s \in ScoreViews, n \in {0, MaxPop}}
    /\ gastats = NoStats
    /\ NoEngine

\* GARouletteWheelSelector::select: arg is the cutoff drawn and the rank
\* position reached, val the individual returned
DoRouletteWheelSelect ==
    /\ ~ret.panic
    /\ selector.kind = "RouletteWheel"
    /\ \E cutoff \in Cutoffs :
          IF RouletteWheelSelectPanics(selector.wheel_proportions,
                                       selector.score_selection, pop, cutoff)
          THEN ret' = Panic("roulette_select", [cutoff |-> cutoff])
          ELSE \E lower \in {RouletteWheelLower(selector.wheel_proportions, cutoff)} :
                  ret' = Ret("roulette_select", [cutoff |-> cutoff, lower |-> lower],
                             IndividualAt(pop, lower, selector.score_selection))
    /\ UNCHANGED <<pop, selector, gastats>>
    /\ UNCHANGED engine

\* GATournamentSelector::update: the update of the RouletteWheel selector it owns
DoTournamentUpdate ==
    /\ ~ret.panic
    /\ selector.kind = "Tournament"
    /\ pop' = Sort(pop)
    /\ LET resized == Resize(selector.wheel_proportions, Size(pop))
           s == selector.score_selection
       IN  IF CanIndex(Sort(pop), 0, s) /\ CanIndex(Sort(pop), Size(pop) - 1, s)
           THEN /\ selector' = [selector EXCEPT !.wheel_proportions =
                                    RouletteWheelProportions(resized, s, Sort(pop))]
                /\ ret' = Ret("tournament_update", None, None)
           ELSE /\ selector' = [selector EXCEPT !.wheel_proportions = resized]
                /\ ret' = Panic("tournament_update", None)
    /\ UNCHANGED gastats
    /\ UNCHANGED engine

\* GATournamentSelector::select: arg is the rank positions of the first and
\* the second draw, val the individual returned
DoTournamentSelect ==
    /\ ~ret.panic
    /\ selector.kind = "Tournament"
    /\ \E cutoff1, cutoff2 \in Cutoffs :
          IF \/ RouletteWheelSelectPanics(selector.wheel_proportions,
                                          selector.score_selection, pop, cutoff1)
             \/ RouletteWheelSelectPanics(selector.wheel_proportions,
                                          selector.score_selection, pop, cutoff2)
          THEN ret' = Panic("tournament_select", None)
          ELSE \E lower1 \in {RouletteWheelLower(selector.wheel_proportions, cutoff1)},
                  lower2 \in {RouletteWheelLower(selector.wheel_proportions, cutoff2)} :
                  ret' = Ret("tournament_select", <<lower1, lower2>>,
                             IndividualAt(pop, TournamentPick(pop, selector.score_selection,
                                                              lower1, lower2),
                                          selector.score_selection))
    /\ UNCHANGED <<pop, selector, gastats>>
    /\ UNCHANGED engine

NextWheel ==
    \/ DoRouletteWheelUpdate
    \/ DoRouletteWheelSelect
    \/ DoTournamentUpdate
    \/ DoTournamentSelect

SpecWheel == InitWheel /\ [][NextWheel]_vars

----------------------------------------------------------------------------
(* The Archive specification: one GAStatistics, seeded once with set_best, *)
(* and one GAPopulation merged into it with update_best                    *)

InitArch ==
    /\ pop \in ArchivePopulations
    /\ ret = Ret("new", None, None)
    /\ selector = NoSelector
    /\ gastats = GAStatisticsNew
    /\ NoEngine

\* set_best(seed) on the fresh tracker
DoSetBest ==
    /\ ~ret.panic
    /\ gastats.cur_generation = 0
    /\ \E seed \in ArchiveSeeds :
          /\ gastats' = SetBest(gastats, seed)
          /\ ret' = Ret("set_best", None, None)
    /\ UNCHANGED <<pop, selector>>
    /\ UNCHANGED engine

\* update_best(&pop): arg is best() as it was before the call
DoUpdateBest ==
    /\ ~ret.panic
    /\ \E r \in {UpdateBest(gastats, pop)} :
           IF r.panic
           THEN /\ gastats' = gastats
                /\ ret' = Panic("update_best", gastats.alltime_best_pop)
           ELSE /\ gastats' = r.val
                /\ ret' = Ret("update_best", gastats.alltime_best_pop, None)
    /\ UNCHANGED <<pop, selector>>
    /\ UNCHANGED engine

NextArch ==
    \/ DoSetBest
    \/ DoUpdateBest
    \/ DoSort

SpecArch == InitArch /\ [][NextArch]_vars

----------------------------------------------------------------------------
(* Properties of the ranking orders *)

\* a is at least as good as b under the sort order
NotWorse(order, a, b) == IF order = LowIsBest THEN FLe(a, b) ELSE FGe(a, b)

\* a is strictly better than b under the sort order
StrictlyBetter(order, a, b) == IF order = LowIsBest THEN FLt(a, b) ELSE FGt(a, b)

IsPermutation(s, n) ==
    /\ Len(s) = n
    /\ \A v \in 0..(n - 1) : Cardinality({i \in 1..n : s[i] = v}) = 1

BothSorted(P) == P.is_raw_sorted /\ P.is_fitness_sorted

\* the scores an iterator yields, best first
Yielded(P, basis) == [i \in 1..Size(P) |-> Score(ScoreIterator(P, basis)[i], basis)]

RankedIteration(P, basis) ==
    /\ CanIterate(P, basis)
    /\ IsPermutation(OrderOf(P, basis), Size(P))
    /\ \A i \in 1..(Size(P) - 1) :
          NotWorse(P.sort_order, Yielded(P, basis)[i], Yielded(P, basis)[i + 1])

RawSet(P) == {P.population[i].raw : i \in 1..Size(P)}
MaxOf(S) == CHOOSE m \in S : \A x \in S : FLe(x, m)
MinOf(S) == CHOOSE m \in S : \A x \in S : FLe(m, x)

\* C4: after sort() on a non-empty population best_by_raw_score().raw() is
\* the maximum raw score under HighIsBest and the minimum under LowIsBest,
\* and worst_by_raw_score().raw() is the opposite extreme.
C4_BestWorstExtremes ==
    (ret.op = "sort" /\ Size(pop) > 0) =>
        /\ CanIndex(pop, 0, Raw) /\ CanIndex(pop, Size(pop) - 1, Raw)
        /\ BestByRawScore(pop).raw =
              (IF pop.sort_order = HighIsBest THEN MaxOf(RawSet(pop)) ELSE MinOf(RawSet(pop)))
        /\ WorstByRawScore(pop).raw =
              (IF pop.sort_order = HighIsBest THEN MinOf(RawSet(pop)) ELSE MaxOf(RawSet(pop)))

\* a sorted population whose best raw score is not at the front of the
\* backing vector, and whose best-by-fitness individual has another raw score
C4_Witness ==
    /\ ret.op = "sort"
    /\ Size(pop) = 3
    /\ BestByRawScore(pop).raw # WorstByRawScore(pop).raw
    /\ BestByRawScore(pop).raw # pop.population[1].raw
    /\ BestByRawScore(pop).raw # BestByFitnessScore(pop).raw

\* the positions of the backing vector whose fitness no other is worse than
WorstFitnessPositions(P) ==
    {j \in 1..Size(P) :
        \A i \in 1..Size(P) :
            NotWorse(P.sort_order, P.population[i].fitness, P.population[j].fitness)}

\* C5: swap_individual(candidate) on a sorted non-empty population replaces
\* an individual iff the candidate's fitness is strictly better than that of
\* the worst-by-fitness individual; it then replaces exactly that individual,
\* keeps the size and clears both sorted flags; otherwise nothing changes.
C5_SwapIndividual ==
    [][ (ret'.op = "swap_individual" /\ BothSorted(pop) /\ Size(pop) > 0) =>
          LET c == ret'.arg
              w == pop.population_order_fitness[Size(pop)] + 1
          IN  /\ ~ret'.panic
              /\ w \in WorstFitnessPositions(pop)
              /\ IF StrictlyBetter(pop.sort_order, c.fitness, pop.population[w].fitness)
                 THEN /\ pop'.population = [pop.population EXCEPT ![w] = c]
                      /\ ~pop'.is_raw_sorted
                      /\ ~pop'.is_fitness_sorted
                      /\ pop'.sort_order = pop.sort_order
                 ELSE pop' = pop
      ]_vars

\* a swap that replaced the worst individual of three: the flags are cleared
\* while the order vectors of the sort before it are still there
C5_Witness ==
    /\ ret.op = "swap_individual"
    /\ ~ret.panic
    /\ Size(pop) = 3
    /\ Len(pop.population_order_fitness) = 3
    /\ ~pop.is_fitness_sorted
    /\ ~pop.is_raw_sorted
    /\ \E i \in 1..3 : pop.population[i] = ret.arg

----------------------------------------------------------------------------
(* Properties of the statistics *)

RECURSIVE RawSum(_)
RawSum(p) == IF p = <<>> THEN F(0) ELSE FAdd(Head(p).raw, RawSum(Tail(p)))

RawAvg(p) == FDiv(RawSum(p), F(Len(p)))

RECURSIVE RawSquaredDeviations(_, _)
RawSquaredDeviations(p, avg) ==
    IF p = <<>> THEN F(0)
    ELSE FAdd(FMul(FSub(Head(p).raw, avg), FSub(Head(p).raw, avg)),
              RawSquaredDeviations(Tail(p), avg))

RawVar(p) ==
    IF Len(p) > 1 THEN FDiv(RawSquaredDeviations(p, RawAvg(p)), F(Len(p) - 1)) ELSE F(0)

\* C6: statistics() equals the direct computation over the raw scores: sum,
\* avg = sum/n, max, min, var = squared deviations from avg over n-1 for
\* n > 1; var = 0 and std_dev = 0 for one individual; None, and nothing
\* memoized, for an empty population.
C6_StatisticsDirect ==
    (ret.op = "statistics") =>
        IF Size(pop) = 0
        THEN ret.val = None /\ pop.statistics = None
        ELSE /\ IsSome(ret.val)
             /\ pop.statistics = ret.val
             /\ LET st == Unwrap(ret.val)
                    p == pop.population
                IN  /\ st.raw_sum = RawSum(p)
                    /\ st.raw_avg = RawAvg(p)
                    /\ st.raw_max = MaxOf(RawSet(pop))
                    /\ st.raw_min = MinOf(RawSet(pop))
                    /\ st.raw_var = RawVar(p)
                    /\ st.raw_std_dev = FSqrt(RawVar(p))
                    /\ (Size(pop) = 1 => st.raw_var = F(0) /\ st.raw_std_dev = F(0))

\* statistics of three individuals whose raw scores differ: a variance that
\* is not zero, over a negative and a positive score
C6_Witness ==
    /\ ret.op = "statistics"
    /\ Size(pop) = 3
    /\ IsSome(ret.val)
    /\ Unwrap(ret.val).raw_var # F(0)
    /\ FLt(Unwrap(ret.val).raw_min, F(0))
    /\ FGt(Unwrap(ret.val).raw_max, F(0))

\* C7: statistics() is idempotent: a statistics(), sort() or force_sort()
\* call leaves unchanged what statistics() returns, and statistics() returns
\* that value, so two calls with only sorts between them return the same.
C7_StatisticsIdempotent ==
    [][ (ret'.op \in {"statistics", "sort", "force_sort"}) =>
          /\ StatisticsVal(pop') = StatisticsVal(pop)
          /\ pop'.population = pop.population
          /\ (ret'.op = "statistics" => ret'.val = StatisticsVal(pop'))
      ]_vars

\* a statistics() call answered from the memo of an earlier call, on a
\* population of three that has been sorted
C7_Witness ==
    /\ ret.op = "statistics"
    /\ ret.arg = TRUE
    /\ Size(pop) = 3
    /\ BothSorted(pop)
    /\ pop.population_order_raw # <<0, 1, 2>>
    /\ IsSome(ret.val)

StatsFinite(st) ==
    /\ IsFinite(st.raw_sum) /\ IsFinite(st.raw_avg) /\ IsFinite(st.raw_max)
    /\ IsFinite(st.raw_min) /\ IsFinite(st.raw_var) /\ IsFinite(st.raw_std_dev)
    /\ IsFinite(st.fitness_sum) /\ IsFinite(st.fitness_avg) /\ IsFinite(st.fitness_max)
    /\ IsFinite(st.fitness_min) /\ IsFinite(st.fitness_var) /\ IsFinite(st.fitness_std_dev)

SortedWithStatistics(P) == Size(P) > 0 /\ BothSorted(P) /\ IsSome(P.statistics)

\* C8: for any non-empty population on which sort() and statistics() have
\* been called, pop.clone() == pop holds.
C8_CloneEqualsSelf ==
    (ret.op = "clone_eq" /\ SortedWithStatistics(pop)) => (~ret.panic /\ ret.val = TRUE)

\* what does hold: the clone equals the original when every statistic is finite
C8_CloneEqualsSelfWhenFinite ==
    (ret.op = "clone_eq" /\ SortedWithStatistics(pop) /\ StatsFinite(Unwrap(pop.statistics)))
        => (~ret.panic /\ ret.val = TRUE)

----------------------------------------------------------------------------
(* Properties of the selectors *)

ViewScores(P, s) == {Score(P.population[i], s) : i \in 1..Size(P)}

\* the length of the best-score prefix of the ranked order
TieCount(P, s) ==
    Cardinality({i \in 1..Size(P) :
        \A j \in 1..i : Score(ScoreIterator(P, s)[j], s) = Score(ScoreIterator(P, s)[1], s)})

\* C9: after update(pop) on a non-empty population, whatever the random
\* draw, the individual the Rank selector returns has the view-score
\* max_score(pop) of the configured view, and the drawn rank index lies in
\* [0, tie_count), tie_count the length of the best-score prefix.
C9_RankSelectsBest ==
    (ret.op = "rank_select" /\ Size(pop) > 0 /\ BothSorted(pop)) =>
        LET s == selector.score_selection
        IN  /\ ~ret.panic
            /\ Score(ret.val, s) = MaxScore(s, pop)
            /\ \A x \in ViewScores(pop, s) : NotWorse(pop.sort_order, Score(ret.val, s), x)
            /\ ret.arg \in 0..(TieCount(pop, s) - 1)
            /\ ret.val = ScoreIterator(pop, s)[ret.arg + 1]

\* a draw that is not the first of two tied best individuals, with a worse
\* third behind them
C9_Witness ==
    /\ ret.op = "rank_select"
    /\ ~ret.panic
    /\ Size(pop) = 3
    /\ BothSorted(pop)
    /\ TieCount(pop, selector.score_selection) = 2
    /\ ret.arg = 1

\* all view-scores >= 0 or all view-scores <= 0
SingleSigned(P, s) ==
    \/ \A x \in ViewScores(P, s) : FGe(x, F(0))
    \/ \A x \in ViewScores(P, s) : FLe(x, F(0))

WheelNonDecreasing(wheel) ==
    \A i \in 1..(Len(wheel) - 1) : FLe(wheel[i], wheel[i + 1])

\* C10: after RouletteWheel update(pop) on a non-empty population whose
\* view-scores are all >= 0 or all <= 0, under either sort order, the slots
\* are non-decreasing in rank position and the final slot is 1.0.
C10_WheelSingleSigned ==
    (ret.op = "roulette_update" /\ ~ret.panic /\ Size(pop) > 0
        /\ SingleSigned(pop, selector.score_selection)) =>
        /\ Len(selector.wheel_proportions) = Size(pop)
        /\ WheelNonDecreasing(selector.wheel_proportions)
        /\ selector.wheel_proportions[Size(pop)] = F(1)

\* what does hold: the same when the sign test of update accepts the scores
\* and they are finite
C10_WheelSignTestPassed ==
    (ret.op = "roulette_update" /\ ~ret.panic /\ Size(pop) > 0
        /\ \A x \in ViewScores(pop, selector.score_selection) : IsFinite(x)
        /\ \/ MaxScore(selector.score_selection, pop) = MinScore(selector.score_selection, pop)
           \/ SingleSignedTest(MaxScore(selector.score_selection, pop),
                               MinScore(selector.score_selection, pop))) =>
        /\ Len(selector.wheel_proportions) = Size(pop)
        /\ WheelNonDecreasing(selector.wheel_proportions)
        /\ selector.wheel_proportions[Size(pop)] = F(1)

\* finite scores 0 and 2 ranked LowIsBest: single-signed, and the wheel is
\* left as it was
C10_LowIsBestZeroBest ==
    /\ ret.op = "roulette_update" /\ ~ret.panic
    /\ pop.sort_order = LowIsBest
    /\ selector.score_selection = Raw
    /\ ViewScores(pop, Raw) = {F(0), F(2)}
    /\ selector.wheel_proportions[Size(pop)] # F(1)

----------------------------------------------------------------------------
(* The tracker specification: one GAStatistics that is handed populations   *)
(* with set_best and update; ret.arg is the log of the calls made so far,   *)
(* each with the population it was handed                                   *)

Call(op, P) == [op |-> op, pop |-> P]

InitTrack ==
    /\ pop = NewPopulation(<<>>, LowIsBest)
    /\ ret = Ret("new", <<>>, None)
    /\ selector = NoSelector
    /\ gastats = GAStatisticsNew
    /\ NoEngine

\* set_best(P.clone())
DoTrackSetBest ==
    /\ ~ret.panic
    /\ Len(ret.arg) < MaxCalls
    /\ \E P \in TrackPopulations :
          /\ gastats' = SetBest(gastats, P)
          /\ pop' = P
          /\ ret' = Ret("set_best", Append(ret.arg, Call("set_best", P)), None)
    /\ UNCHANGED selector
    /\ UNCHANGED engine

\* update(&mut P): P keeps the statistics the call computed
DoTrackUpdate ==
    /\ ~ret.panic
    /\ Len(ret.arg) < MaxCalls
    /\ \E P \in TrackPopulations :
          /\ pop' = StatisticsPop(P)
          /\ \E r \in {Update(gastats, P)} :
                IF r.panic
                THEN /\ gastats' = gastats
                     /\ ret' = Panic("update", Append(ret.arg, Call("update", P)))
                ELSE /\ gastats' = r.val
                     /\ ret' = Ret("update", Append(ret.arg, Call("update", P)), None)
    /\ UNCHANGED selector
    /\ UNCHANGED engine

NextTrack ==
    \/ DoTrackSetBest
    \/ DoTrackUpdate

SpecTrack == InitTrack /\ [][NextTrack]_vars

----------------------------------------------------------------------------
(* Properties of the RouletteWheel and Tournament draws *)

\* the rank positions whose slot exceeds the cutoff
SlotsAbove(wheel, cutoff) == {p \in 0..(Len(wheel) - 1) : FGt(wheel[p + 1], cutoff)}

\* the smallest of them
FirstSlotAbove(wheel, cutoff) ==
    CHOOSE p \in SlotsAbove(wheel, cutoff) : \A q \in SlotsAbove(wheel, cutoff) : p <= q

\* a select on a wheel as update leaves it for a population it accepts
SelectedFromFullWheel ==
    /\ ret.op = "roulette_select"
    /\ ~ret.panic
    /\ Len(selector.wheel_proportions) = Size(pop)
    /\ Size(pop) > 0
    /\ WheelNonDecreasing(selector.wheel_proportions)
    /\ selector.wheel_proportions[Size(pop)] = F(1)

\* C11: for a non-decreasing wheel whose final slot is 1.0 and any cutoff in
\* [0,1), RouletteWheel select returns the individual at rank position p,
\* p the smallest index with wheel_proportions[p] > cutoff.
C11_SelectFirstSlotAbove ==
    SelectedFromFullWheel =>
        ret.val = IndividualAt(pop, FirstSlotAbove(selector.wheel_proportions, ret.arg.cutoff),
                               selector.score_selection)

\* what the search does guarantee: a rank position of the wheel, no later
\* than the first slot above the cutoff, and the individual ranked there
C11_SelectNotPastFirstSlotAbove ==
    SelectedFromFullWheel =>
        /\ ret.arg.lower \in 0..FirstSlotAbove(selector.wheel_proportions, ret.arg.cutoff)
        /\ ret.val = IndividualAt(pop, ret.arg.lower, selector.score_selection)

\* a draw that stops before the first slot above the cutoff
C11_StopsEarly ==
    /\ SelectedFromFullWheel
    /\ ret.arg.lower < FirstSlotAbove(selector.wheel_proportions, ret.arg.cutoff)

\* the two draws of the tournament_select call that ret records
FirstDraw == IndividualAt(pop, ret.arg[1], selector.score_selection)
SecondDraw == IndividualAt(pop, ret.arg[2], selector.score_selection)

\* the draw with the strictly better view-score is the one returned
BetterDrawWins ==
    LET s == selector.score_selection
    IN  /\ StrictlyBetter(pop.sort_order, Score(FirstDraw, s), Score(SecondDraw, s))
            => ret.val = FirstDraw
        /\ StrictlyBetter(pop.sort_order, Score(SecondDraw, s), Score(FirstDraw, s))
            => ret.val = SecondDraw

\* C12: Tournament select returns one of its two RouletteWheel draws: the
\* draw with the larger view-score when sort_order is HighIsBest, the draw
\* with the smaller view-score when it is LowIsBest, and the first draw
\* whenever the two view-scores are equal, under either sort order.
C12_TournamentFirstDrawOnTie ==
    (ret.op = "tournament_select" /\ ~ret.panic) =>
        /\ ret.val \in {FirstDraw, SecondDraw}
        /\ BetterDrawWins
        /\ Score(FirstDraw, selector.score_selection) = Score(SecondDraw, selector.score_selection)
            => ret.val = FirstDraw

\* what the comparison with >= gives: on a tie the first draw under
\* HighIsBest and the second draw under LowIsBest
C12_TournamentTieByOrder ==
    (ret.op = "tournament_select" /\ ~ret.panic) =>
        /\ ret.val \in {FirstDraw, SecondDraw}
        /\ BetterDrawWins
        /\ Score(FirstDraw, selector.score_selection) = Score(SecondDraw, selector.score_selection)
            => ret.val = (IF pop.sort_order = HighIsBest THEN FirstDraw ELSE SecondDraw)

\* a LowIsBest tie between two different individuals
C12_LowIsBestTie ==
    /\ ret.op = "tournament_select" /\ ~ret.panic
    /\ pop.sort_order = LowIsBest
    /\ Score(FirstDraw, selector.score_selection) = Score(SecondDraw, selector.score_selection)
    /\ FirstDraw # SecondDraw

----------------------------------------------------------------------------
(* Properties of the Archive *)

\* the Archive before and after the update_best call that ret records
ArchiveBefore == Unwrap(ret.arg)
ArchiveAfter == Unwrap(gastats.alltime_best_pop)

RankedRaws(P) == Yielded(P, Raw)

Range(s) == {s[i] : i \in 1..Len(s)}

\* how many scores of U are strictly better than x
BetterCount(U, order, x) == Cardinality({y \in U : StrictlyBetter(order, y, x)})

\* the n best of the pairwise different scores U, best first
BestOf(U, order, n) == [i \in 1..n |-> CHOOSE x \in U : BetterCount(U, order, x) = i - 1]

\* update_best was called on an Archive of more than one individual, the
\* Archive and the population sorted, of one sort order, and all their raw
\* scores pairwise different
MergedDistinct ==
    /\ ret.op = "update_best"
    /\ IsSome(ret.arg)
    /\ Size(ArchiveBefore) > 1
    /\ BothSorted(ArchiveBefore)
    /\ BothSorted(pop)
    /\ pop.sort_order = ArchiveBefore.sort_order
    /\ Cardinality(RawSet(ArchiveBefore) \cup RawSet(pop)) = Size(ArchiveBefore) + Size(pop)

\* the Archive holds the N best raw scores of the union, best first
HoldsBestOfUnion ==
    /\ ~ret.panic
    /\ IsSome(gastats.alltime_best_pop)
    /\ ArchiveAfter.sort_order = pop.sort_order
    /\ RankedRaws(ArchiveAfter) =
          BestOf(RawSet(ArchiveBefore) \cup RawSet(pop), pop.sort_order, Size(ArchiveBefore))

\* the merge of the even with the odd raw scores gives the listed Archive
EvenOddMerge ==
    (RawSet(ArchiveBefore) = Range(EvenRawScores) /\ RawSet(pop) = Range(OddRawScores)) =>
        RankedRaws(ArchiveAfter) =
            IF pop.sort_order = HighIsBest
            THEN <<F(11), F(10), F(9), F(8), F(7), F(6), F(5), F(4), F(3), F(2), F(1)>>
            ELSE <<F(-10), F(-9), F(-8), F(-7), F(-6), F(-5), F(-4), F(-3), F(-2), F(-1),
                   Norm(1, 10)>>

\* every incoming individual is better than the best of the Archive
AllIncomingBetter ==
    /\ Size(pop) > 0
    /\ \A x \in RawSet(pop) : \A y \in RawSet(ArchiveBefore) :
          StrictlyBetter(pop.sort_order, x, y)

\* the raw ranking of the Archive yields the individuals of the population
BecomesIncoming == ScoreIterator(ArchiveAfter, Raw) = ScoreIterator(pop, Raw)

C2_ArchiveMonotone ==
    (/\ ret.op = "update_best" /\ ~ret.panic
     /\ IsSome(ret.arg)
     /\ Size(ArchiveBefore) > 0
     /\ BothSorted(ArchiveBefore)
     /\ pop.sort_order = ArchiveBefore.sort_order) =>
        /\ IsSome(gastats.alltime_best_pop)
        /\ Size(ArchiveAfter) = Size(ArchiveBefore)
        /\ ArchiveAfter.sort_order = ArchiveBefore.sort_order
        /\ CanIndex(ArchiveAfter, Size(ArchiveAfter) - 1, Raw)
        /\ NotWorse(ArchiveAfter.sort_order,
                    WorstByRawScore(ArchiveAfter).raw, WorstByRawScore(ArchiveBefore).raw)

\* a merge under LowIsBest that replaced the worst of two archived
\* individuals and kept the best: the worst raw score got strictly better
C2_Witness ==
    /\ ret.op = "update_best" /\ ~ret.panic
    /\ IsSome(ret.arg)
    /\ Size(ArchiveBefore) = 2
    /\ BothSorted(ArchiveBefore)
    /\ pop.sort_order = LowIsBest
    /\ ArchiveBefore.sort_order = LowIsBest
    /\ StrictlyBetter(LowIsBest, WorstByRawScore(ArchiveAfter).raw,
                                 WorstByRawScore(ArchiveBefore).raw)
    /\ BestByRawScore(ArchiveAfter) = BestByRawScore(ArchiveBefore)

\* an update_best call that returned, on an Archive of one individual
SoleArchiveUpdated ==
    /\ ret.op = "update_best" /\ ~ret.panic
    /\ IsSome(ret.arg)
    /\ Size(ArchiveBefore) = 1

\* C13: update_best on an Archive of size 1: the sole member is replaced by a
\* clone of the incoming population's best-by-raw individual if and only if
\* that individual's raw score is strictly better per sort_order (the order
\* of the incoming population, which the Archive takes on); with an equal or
\* worse raw score the member is unchanged.
C13_SoleMemberReplaced ==
    SoleArchiveUpdated =>
        /\ Size(ArchiveAfter) = 1
        /\ ArchiveAfter.sort_order = pop.sort_order
        /\ \A i \in 1..Size(pop) :
              NotWorse(pop.sort_order, BestByRawScore(pop).raw, pop.population[i].raw)
        /\ IF StrictlyBetter(pop.sort_order, BestByRawScore(pop).raw,
                                             ArchiveBefore.population[1].raw)
           THEN ArchiveAfter.population[1] = BestByRawScore(pop)
           ELSE ArchiveAfter.population[1] = ArchiveBefore.population[1]

\* the sole member replaced by the best of two incoming individuals
C13_Witness ==
    /\ SoleArchiveUpdated
    /\ Size(pop) = 2
    /\ ArchiveAfter.population[1] = BestByRawScore(pop)
    /\ ArchiveAfter.population[1] # ArchiveBefore.population[1]
    /\ ArchiveAfter.population[1].raw # ArchiveBefore.population[1].raw

\* the sole member kept against a different individual of the same raw score
C13_KeptOnTie ==
    /\ SoleArchiveUpdated
    /\ BestByRawScore(pop).raw = ArchiveBefore.population[1].raw
    /\ BestByRawScore(pop) # ArchiveBefore.population[1]
    /\ ArchiveAfter.population[1] = ArchiveBefore.population[1]

----------------------------------------------------------------------------
(* Properties of the tracker's history and all-time scores *)

\* the calls that were handed a population of at least one individual, in order
NonEmptyCall(c) == Size(c.pop) > 0
Recorded(log) == SelectSeq(log, NonEmptyCall)

\* set_best(p1) with a non-empty p1, followed by update calls only
SetBestThenUpdates(log) ==
    /\ Len(log) >= 1
    /\ log[1].op = "set_best"
    /\ NonEmptyCall(log[1])
    /\ \A i \in 2..Len(log) : log[i].op = "update"

\* C14: on a fresh tracker, after set_best(p1) followed by update(p2), ...,
\* update(pn) with non-empty populations, generation_statistics(k) returns
\* the statistics of pk for every 1 <= k <= n and absent for k = 0 and for
\* k > n; an update with an empty population adds no history entry and does
\* not advance the generation counter.
C14_GenerationHistory ==
    (~ret.panic /\ SetBestThenUpdates(ret.arg)) =>
        LET recorded == Recorded(ret.arg)
        IN  /\ gastats.cur_generation = Len(recorded)
            /\ \A k \in 1..Len(recorded) :
                  GenerationStatistics(gastats, k) = StatisticsVal(recorded[k].pop)
            /\ GenerationStatistics(gastats, 0) = None
            /\ \A k \in (Len(recorded) + 1)..(MaxCalls + 1) :
                  GenerationStatistics(gastats, k) = None

\* three recorded generations of different statistics
C14_Witness ==
    /\ ~ret.panic
    /\ SetBestThenUpdates(ret.arg)
    /\ Len(ret.arg) = 3
    /\ Len(Recorded(ret.arg)) = 3
    /\ \A i, j \in 1..3 : i # j =>
          StatisticsVal(ret.arg[i].pop) # StatisticsVal(ret.arg[j].pop)
    /\ GenerationStatistics(gastats, 3) = StatisticsVal(ret.arg[3].pop)

\* an update with the empty population between two that were recorded
C14_EmptyUpdateSkipped ==
    /\ ~ret.panic
    /\ SetBestThenUpdates(ret.arg)
    /\ Len(ret.arg) = 3
    /\ ~NonEmptyCall(ret.arg[2])
    /\ NonEmptyCall(ret.arg[3])
    /\ gastats.cur_generation = 2
    /\ GenerationStatistics(gastats, 2) = StatisticsVal(ret.arg[3].pop)

\* the raw scores of all individuals of all populations recorded so far
RecordedRaws(log) ==
    UNION {{log[i].pop.population[j].raw : j \in 1..Size(log[i].pop)} : i \in 1..Len(log)}

\* C15: after any sequence of set_best/update calls with at least one
\* non-empty population on a fresh tracker, alltime_max_score equals the
\* maximum raw score over all individuals of all populations recorded so far
\* and alltime_min_score equals the minimum raw score over them.
C15_AllTimeExtremes ==
    (~ret.panic /\ RecordedRaws(ret.arg) # {}) =>
        /\ gastats.alltime_max_score = MaxOf(RecordedRaws(ret.arg))
        /\ gastats.alltime_min_score = MinOf(RecordedRaws(ret.arg))

\* what the running max and min give, started as they are at 0.0: the
\* extremes over the recorded raw scores and 0.0
C15_AllTimeExtremesWithZero ==
    (~ret.panic /\ RecordedRaws(ret.arg) # {}) =>
        /\ gastats.alltime_max_score = MaxOf(RecordedRaws(ret.arg) \cup {F(0)})
        /\ gastats.alltime_min_score = MinOf(RecordedRaws(ret.arg) \cup {F(0)})

\* only positive raw scores recorded, and an all-time minimum of 0.0
C15_MinStaysZero ==
    /\ ~ret.panic
    /\ RecordedRaws(ret.arg) # {}
    /\ \A x \in RecordedRaws(ret.arg) : FGt(x, F(0))
    /\ gastats.alltime_min_score = F(0)

----------------------------------------------------------------------------
(* Properties of set_order_and_sort *)

\* C16: set_order_and_sort(new_order): if new_order differs from the current
\* sort order, then afterwards order() = new_order, both sorted flags are
\* true and both orderings are sorted per new_order; if new_order equals the
\* current order, the call changes nothing.
C16_SetOrderAndSort ==
    [][ ret'.op = "set_order_and_sort" =>
          IF ret'.arg # pop.sort_order
          THEN /\ pop'.sort_order = ret'.arg
               /\ BothSorted(pop')
               /\ RankedIteration(pop', Raw)
               /\ RankedIteration(pop', Fitness)
               /\ pop'.population = pop.population
          ELSE pop' = pop
      ]_vars

\* three individuals ranked under the order of the call, differently by raw
\* score and by fitness
C16_Witness ==
    /\ ret.op = "set_order_and_sort"
    /\ pop.sort_order = ret.arg
    /\ Size(pop) = 3
    /\ BothSorted(pop)
    /\ pop.population_order_raw # pop.population_order_fitness
    /\ Yielded(pop, Raw)[1] # Yielded(pop, Raw)[3]

\* a call with the current order on a population never sorted: still unsorted
C16_SameOrderUnsorted ==
    /\ ret.op = "set_order_and_sort"
    /\ pop.sort_order = ret.arg
    /\ Size(pop) = 3
    /\ ~pop.is_raw_sorted
    /\ pop.population_order_raw = <<>>

----------------------------------------------------------------------------
(* GARandomCtx: the seeded, stateful random context (ga_random.rs)         *)
(*                                                                         *)
(* The generator it wraps, rand's XorShiftRng, is modelled by its          *)
(* algorithm on words of WordBits bits instead of 32: four words of state, *)
(* one xor-shift step a draw.  The shift distances 11, 19 and 8 are scaled *)
(* to 1, 2 and 1, so that they stay below the word width.                  *)

\* the width of a word of the generator
WordBits == 3

\* the number of values of a word
Word == 2 ^ WordBits

\* bitwise exclusive or of two naturals
RECURSIVE Xor(_, _)
Xor(a, b) ==
    IF a = 0 THEN b
    ELSE IF b = 0 THEN a
    ELSE ((a + b) % 2) + 2 * Xor(a \div 2, b \div 2)

\* XorShiftRng::from_seed and XorShiftRng::reseed: the state is the seed
XorShiftFromSeed(seed) == [i \in 1..4 |-> seed[i] % Word]

\* XorShiftRng::new_unseeded: the state is four fixed words
XorShiftNewUnseeded == XorShiftFromSeed(<<4, 1, 5, 3>>)

\* XorShiftRng::next_u32: the state after the draw and the word drawn
XorShiftNext(rng) ==
    LET t == Xor(rng[1], (rng[1] * 2) % Word)
    IN  <<rng[2], rng[3], rng[4],
          Xor(Xor(rng[4], rng[4] \div 4), Xor(t, t \div 2))>>

\* the word a draw returns: the last word of the state after it
XorShiftWord(rng) == XorShiftNext(rng)[4]

\* GARandomCtx::new_unseeded
NewUnseeded(name) ==
    [seed |-> <<0, 0, 0, 0>>, rng |-> XorShiftNewUnseeded, name |-> name,
     seeded |-> FALSE, values_generated |-> 0]

\* GARandomCtx::from_seed
FromSeed(seed, name) ==
    [seed |-> seed, rng |-> XorShiftFromSeed(seed), name |-> name,
     seeded |-> TRUE, values_generated |-> 0]

\* the context after GARandomCtx::gen or gen_range: one more value
\* generated, the generator one draw further
Drawn(c) ==
    [c EXCEPT !.values_generated = @ + 1, !.rng = XorShiftNext(@)]

\* the value of GARandomCtx::gen::<f32>: the word drawn, scaled into [0, 1)
Gen(c) == Norm(XorShiftWord(c.rng), Word)

\* the value of GARandomCtx::gen_range(low, high), low < high: the word
\* drawn, folded into [low, high)
GenRange(c, low, high) == low + (XorShiftWord(c.rng) % (high - low))

\* the value of GARandomCtx::test_value
TestValue(c, value) == FLt(Gen(c), value)

\* the generator after GARandomCtx::reset, the mutant where reset leaves
\* the generator where it is
ResetKeepsRng(c) == c.rng

\* the generator after GARandomCtx::reset
ResetRng(c) ==
    IF c.seeded THEN XorShiftFromSeed(c.seed) ELSE XorShiftNewUnseeded

\* GARandomCtx::reset
Reset(c) == [c EXCEPT !.values_generated = 0, !.rng = ResetRng(c)]

\* GARandomCtx::reseed
Reseed(c, seed) == Reset([c EXCEPT !.seed = seed, !.seeded = TRUE])

----------------------------------------------------------------------------
(* SimpleGeneticAlgorithm: the Simple GA engine (ga_simple.rs), over the   *)
(* GATestIndividual and the GATestFactory of ga_test.rs                    *)

\* the context after the loop of random_population that draws until a value
\* is not zero
RECURSIVE SkipZeroes(_)
SkipZeroes(c) ==
    IF Gen(c) = F(0) THEN SkipZeroes(Drawn(c)) ELSE Drawn(c)

\* the loop of GATestFactory::random_population: n individuals, each of one
\* more value drawn after the value that was not zero
RECURSIVE RandomIndividuals(_, _, _)
RandomIndividuals(n, c, inds) ==
    IF n = 0 THEN [inds |-> inds, rng_ctx |-> c]
    ELSE RandomIndividuals(n - 1, Drawn(SkipZeroes(c)),
                           Append(inds, GATestIndividualNew(Gen(SkipZeroes(c)))))

\* GATestFactory::random_population: the population and the context after it
RandomPopulation(n, sort_order, c) ==
    [population |-> NewPopulation(RandomIndividuals(n, c, <<>>).inds, sort_order),
     rng_ctx |-> RandomIndividuals(n, c, <<>>).rng_ctx]

\* the object new_with_eval_ctx returns
SimpleGeneticAlgorithm(cfg, p, rng) ==
    [current_generation |-> 0, config |-> cfg, population |-> p, rng_ctx |-> rng]

\* the mutant of new_with_eval_ctx that falls back on an empty population
\* where neither a factory nor a population is given
NewWithDefaultPopulation(cfg, rng) ==
    [panic |-> FALSE,
     val |-> Some(SimpleGeneticAlgorithm(
                    cfg, NewPopulation(<<>>, cfg.population_sort_order), rng))]

\* new_with_eval_ctx where neither a factory nor a population is given
NewWithMissingArgs(cfg, rng) == Aborted

\* SimpleGeneticAlgorithm::new_with_eval_ctx on the context rng it made
\* from the seed
NewFromCtx(cfg, factory, population, rng) ==
    IF IsSome(factory)
    THEN [panic |-> FALSE,
          val |-> Some(SimpleGeneticAlgorithm(
                    cfg,
                    RandomPopulation(cfg.population_size, cfg.population_sort_order,
                                     rng).population,
                    RandomPopulation(cfg.population_size, cfg.population_sort_order,
                                     rng).rng_ctx))]
    ELSE IF IsSome(population)
    THEN [panic |-> FALSE,
          val |-> Some(SimpleGeneticAlgorithm(cfg, Unwrap(population), rng))]
    ELSE NewWithMissingArgs(cfg, rng)

\* SimpleGeneticAlgorithm::new and new_with_eval_ctx
NewWithEvalCtx(cfg, factory, population) ==
    NewFromCtx(cfg, factory, population, FromSeed(cfg.d_seed, ""))

\* GAPopulation::evaluate: GATestIndividual::evaluate changes nothing
Evaluate(P) == P

\* the engine where the assert of initialize_internal fails, the mutant
\* where the population is sorted before the assert
SortedThenAsserted(ga) == [ga EXCEPT !.population = Sort(@)]

\* the engine where the assert of initialize_internal fails: the assert is
\* the first statement
Asserted(ga) == ga

\* SimpleGeneticAlgorithm::initialize_internal: whether it panics, and the
\* engine it leaves
InitializeInternal(ga) ==
    IF Size(ga.population) > 0
    THEN [panic |-> FALSE,
          val |-> Some([ga EXCEPT !.population = Sort(Evaluate(@))])]
    ELSE [panic |-> TRUE, val |-> Some(Asserted(ga))]

\* roulette_selector.select: the individual at the slot the value drawn
\* from c stops at
Selected(wheel, P, c) ==
    IndividualAt(P, RouletteWheelLower(wheel, Gen(c)), Raw)

\* GATestIndividual::crossover where the crossover test passed
Bred(ind, crossed) ==
    IF crossed THEN GATestIndividualNew(ind.raw) ELSE ind

\* the context after one round of the loop of step_internal: a value for
\* the first select, one for the test, one for the second select
AfterBreeding(c, crossed) ==
    IF crossed THEN Drawn(Drawn(Drawn(c))) ELSE Drawn(Drawn(c))

\* the loop of step_internal that creates the new individuals
RECURSIVE NewIndividuals(_, _, _, _, _, _)
NewIndividuals(n, wheel, P, probability_crossover, c, inds) ==
    IF n = 0 THEN [inds |-> inds, rng_ctx |-> c]
    ELSE NewIndividuals(
            n - 1, wheel, P, probability_crossover,
            AfterBreeding(c, TestValue(Drawn(c), probability_crossover)),
            Append(inds, Bred(Selected(wheel, P, c),
                              TestValue(Drawn(c), probability_crossover))))

\* a step_internal that leaves the new population as it was bred
ElitismSkipped(elitism, P, best_old_individual) == P

\* the new population of step_internal: evaluated, sorted and, with
\* elitism, the best of the old one swapped in and sorted again
Elitism(elitism, P, best_old_individual) ==
    IF elitism THEN Sort(SwapIndividual(P, best_old_individual)) ELSE P

\* the mutant of the counter of step_internal that counts two a step
NextGenerationSkips(current_generation) == current_generation + 2

\* the counter after step_internal
NextGeneration(current_generation) == current_generation + 1

\* step_internal after the loop, bred being the individuals and the context
\* the loop left
Stepped(ga, P, bred) ==
    [ga EXCEPT !.population =
                  Elitism(ga.config.elitism,
                          Sort(Evaluate(NewPopulation(bred.inds, P.sort_order))),
                          IndividualAt(P, 0, Fitness)),
               !.rng_ctx = bred.rng_ctx,
               !.current_generation = NextGeneration(@)]

\* step_internal on the population P the update of the selector sorted
StepSorted(ga, P) ==
    Stepped(ga, P,
            NewIndividuals(Size(P),
                           RouletteWheelProportions(
                               GARouletteWheelSelectorNew(Raw, Size(P)).wheel_proportions,
                               Raw, P),
                           P, ga.config.probability_crossover, ga.rng_ctx, <<>>))

\* SimpleGeneticAlgorithm::step_internal: on a population of no individual
\* the update of the selector sorts and then cannot index the best score
StepInternal(ga) ==
    IF Size(ga.population) > 0
    THEN [panic |-> FALSE, val |-> Some(StepSorted(ga, Sort(ga.population)))]
    ELSE [panic |-> TRUE, val |-> Some([ga EXCEPT !.population = Sort(@)])]

\* SimpleGeneticAlgorithm::done_internal
DoneInternal(ga) == ga.current_generation >= ga.config.max_generations

----------------------------------------------------------------------------
(* The engine and the random contexts under check: two runs, each with     *)
(* its own engine or its own random context, called in any interleaving    *)

\* the largest max_generations of a configuration
MaxGenerations == 2

\* the largest population an engine is constructed with
MaxGAPop == 2

\* the most values drawn from a random context between two resets
MaxDraws == 3

\* the two runs that are compared
Runs == {1, 2}

\* the seeds of the random contexts and of the configurations
Seeds == {<<4, 3, 2, 1>>, <<5, 6, 7, 8>>}

\* the name of the random context of a run
CtxName(r) == IF r = 1 THEN "a" ELSE "b"

\* the populations an engine is given at construction
GARawScores == {Norm(1, 2), F(-1)}
GAIndividuals == {GATestIndividualNew(r) : r \in GARawScores}
GAPopulations ==
    {NewPopulation(p, o) : p \in SeqsUpTo(GAIndividuals, MaxGAPop), o \in SortOrders}

\* the configurations: population_size is the size the factory is asked for
Cfgs ==
    [d_seed : Seeds,
     max_generations : -1..MaxGenerations,
     population_size : 0..MaxGAPop,
     probability_crossover : {Norm(1, 2)},
     probability_mutation : {F(0)},
     population_sort_order : SortOrders,
     elitism : BOOLEAN]

\* the arguments of new: a factory, or a factory and a population that new
\* ignores, or no factory and a population of the order of the
\* configuration, or neither
Setups ==
    {[cfg |-> c, factory |-> Some("GATestFactory"), population |-> None] : c \in Cfgs}
    \cup {[cfg |-> c, factory |-> Some("GATestFactory"),
           population |-> Some(NewPopulation(<<>>, LowIsBest))] :
            c \in {k \in Cfgs : /\ k.population_size = MaxGAPop
                                /\ k.max_generations = MaxGenerations}}
    \cup {s \in {[cfg |-> c, factory |-> None, population |-> Some(P)] :
                    c \in {k \in Cfgs : k.population_size = 0}, P \in GAPopulations} :
            Unwrap(s.population).sort_order = s.cfg.population_sort_order}
    \cup {[cfg |-> c, factory |-> None, population |-> None] :
            c \in {k \in Cfgs : k.population_size = 0}}

\* what is remembered of the calls on the engine of a run: their names
NoCalls == [r \in Runs |-> <<>>]

\* what is remembered of the calls on the random context of a run: the
\* draws since it was made, reseeded or last reset (calls), and whether it
\* was reset since it was made or reseeded (replaying)
NoDraws == [r \in Runs |-> [calls |-> <<>>, replaying |-> FALSE]]

\* what the call op on run r returned: the run, the call and the value
Returned(r, op, val) == <<r, op, val>>
RunOf(returned) == returned[1]
ValOf(returned) == returned[3]

\* two engines to construct from the same arguments
InitEngines ==
    /\ args \in Setups
    /\ sga = [r \in Runs |-> None]
    /\ ctx = <<>>
    /\ ret = Ret("none", NoCalls, None)

\* two random contexts, each from a seed or unseeded
InitContexts ==
    /\ args = <<>>
    /\ sga = <<>>
    /\ ctx \in [Runs -> {FromSeed(s, CtxName(r)) : s \in Seeds, r \in Runs}
                          \cup {NewUnseeded(CtxName(r)) : r \in Runs}]
    /\ \A r \in Runs : ctx[r].name = CtxName(r)
    /\ ret = Ret("none", NoDraws, None)

\* either two random contexts, or two engines to run for MaxGenerations
\* generations (the shorter loops are those of SpecLoop)
InitGA ==
    /\ pop = NewPopulation(<<>>, LowIsBest)
    /\ selector = NoSelector
    /\ gastats = NoStats
    /\ \/ InitEngines /\ args.cfg.max_generations = MaxGenerations
       \/ InitContexts

\* whether run r's engine was constructed, initialized
Constructed(r) == r \in DOMAIN sga /\ IsSome(sga[r])
Initialized(r) ==
    /\ Constructed(r)
    /\ \E i \in 1..Len(ret.arg[r]) : ret.arg[r][i] = "initialize"

\* a call on the engine of run r that returned val, or panicked, and left
\* made (no engine, or the engine)
EngineCall(r, op, panics, made, val) ==
    /\ sga' = [sga EXCEPT ![r] = made]
    /\ IF panics THEN ret' = Panic(op, ret.arg)
       ELSE \E returned \in {Returned(r, op, val)} :
               ret' = Ret(op, [ret.arg EXCEPT ![r] = Append(@, op)], returned)

\* SimpleGeneticAlgorithm::new
DoNew(r) ==
    /\ ~ret.panic
    /\ r \in DOMAIN sga
    /\ ~IsSome(sga[r])
    /\ \E made \in {NewWithEvalCtx(args.cfg, args.factory, args.population)} :
          EngineCall(r, "new", made.panic, made.val, None)
    /\ UNCHANGED <<pop, selector, gastats, args, ctx>>

\* ga.population().sort(), before the engine is initialized
DoPopulationSort(r) ==
    /\ ~ret.panic
    /\ Constructed(r)
    /\ ret.arg[r] = <<"new">>
    /\ EngineCall(r, "sort", FALSE,
                  Some([Unwrap(sga[r]) EXCEPT !.population = Sort(@)]), None)
    /\ UNCHANGED <<pop, selector, gastats, args, ctx>>

\* GeneticAlgorithm::initialize, once
DoInitialize(r) ==
    /\ ~ret.panic
    /\ Constructed(r)
    /\ ~Initialized(r)
    /\ \E made \in {InitializeInternal(Unwrap(sga[r]))} :
          EngineCall(r, "initialize", made.panic, made.val, None)
    /\ UNCHANGED <<pop, selector, gastats, args, ctx>>

\* GeneticAlgorithm::step, in the loop 'while not done: step'
DoStep(r) ==
    /\ ~ret.panic
    /\ Constructed(r)
    /\ Initialized(r)
    /\ ~DoneInternal(Unwrap(sga[r]))
    /\ \E made \in {StepInternal(Unwrap(sga[r]))} :
          EngineCall(r, "step", made.panic, made.val,
                     Unwrap(made.val).current_generation)
    /\ UNCHANGED <<pop, selector, gastats, args, ctx>>

\* a call that reads the engine of run r: it is not remembered
EngineRead(r, op, panics, val) ==
    /\ IF panics THEN ret' = Panic(op, ret.arg)
       ELSE \E returned \in {Returned(r, op, val)} : ret' = Ret(op, ret.arg, returned)
    /\ UNCHANGED <<pop, selector, gastats, args, sga, ctx>>

\* GeneticAlgorithm::done
DoDone(r) ==
    /\ ~ret.panic
    /\ Constructed(r)
    /\ EngineRead(r, "done", FALSE, DoneInternal(Unwrap(sga[r])))

\* GAPopulation::best(0, basis) on ga.population()
DoBest(r) ==
    /\ ~ret.panic
    /\ Constructed(r)
    /\ \E basis \in ScoreViews, P \in {Unwrap(sga[r]).population} :
          EngineRead(r, "best", ~CanIndex(P, 0, basis),
                     IF CanIndex(P, 0, basis) THEN IndividualAt(P, 0, basis) ELSE None)

\* GAPopulation::worst on ga.population()
DoWorst(r) ==
    /\ ~ret.panic
    /\ Constructed(r)
    /\ \E P \in {Unwrap(sga[r]).population} :
          EngineRead(r, "worst", ~CanIndex(P, Size(P) - 1, Fitness),
                     IF CanIndex(P, Size(P) - 1, Fitness) THEN Worst(P) ELSE None)

\* GAPopulation::individual(0, basis) on ga.population()
DoIndividual(r) ==
    /\ ~ret.panic
    /\ Constructed(r)
    /\ \E basis \in ScoreViews, P \in {Unwrap(sga[r]).population} :
          EngineRead(r, "individual", ~CanIndex(P, 0, basis),
                     IF CanIndex(P, 0, basis) THEN IndividualAt(P, 0, basis) ELSE None)

\* GAPopulation::best_by_raw_score on ga.population()
DoBestByRawScore(r) ==
    /\ ~ret.panic
    /\ Constructed(r)
    /\ \E P \in {Unwrap(sga[r]).population} :
          EngineRead(r, "best_by_raw_score", ~CanIndex(P, 0, Raw),
                     IF CanIndex(P, 0, Raw) THEN BestByRawScore(P) ELSE None)

\* GAPopulation::worst_by_raw_score on ga.population()
DoWorstByRawScore(r) ==
    /\ ~ret.panic
    /\ Constructed(r)
    /\ \E P \in {Unwrap(sga[r]).population} :
          EngineRead(r, "worst_by_raw_score", ~CanIndex(P, Size(P) - 1, Raw),
                     IF CanIndex(P, Size(P) - 1, Raw) THEN WorstByRawScore(P) ELSE None)

\* a draw from the random context of run r that returned val
Draw(r, op, val) ==
    /\ ctx' = [ctx EXCEPT ![r] = Drawn(@)]
    /\ \E draw \in {[op |-> op, val |-> val]} :
          ret' = Ret(op, [ret.arg EXCEPT ![r].calls = Append(@, draw)],
                     Returned(r, op, draw.val))
    /\ UNCHANGED <<pop, selector, gastats, args, sga>>

\* GARandomCtx::gen::<f32>
DoGen(r) ==
    /\ ~ret.panic
    /\ r \in DOMAIN ctx
    /\ ctx[r].values_generated < MaxDraws
    /\ Draw(r, "gen", Gen(ctx[r]))

\* GARandomCtx::gen_range(0, 3)
DoGenRange(r) ==
    /\ ~ret.panic
    /\ r \in DOMAIN ctx
    /\ ctx[r].values_generated < MaxDraws
    /\ Draw(r, "gen_range", GenRange(ctx[r], 0, 3))

\* GARandomCtx::reset
DoReset(r) ==
    /\ ~ret.panic
    /\ r \in DOMAIN ctx
    /\ ctx' = [ctx EXCEPT ![r] = Reset(@)]
    /\ ret' = Ret("reset",
                  [ret.arg EXCEPT ![r].calls = <<>>, ![r].replaying = TRUE],
                  Returned(r, "reset", None))
    /\ UNCHANGED <<pop, selector, gastats, args, sga>>

\* GARandomCtx::reseed: a context that starts over from the seed
DoReseed(r) ==
    /\ ~ret.panic
    /\ r \in DOMAIN ctx
    /\ \E seed \in Seeds :
          ctx' = [ctx EXCEPT ![r] = Reseed(@, seed)]
    /\ ret' = Ret("reseed",
                  [ret.arg EXCEPT ![r] = [calls |-> <<>>, replaying |-> FALSE]],
                  Returned(r, "reseed", None))
    /\ UNCHANGED <<pop, selector, gastats, args, sga>>

NextGA ==
    \E r \in Runs :
        \/ DoNew(r)
        \/ DoPopulationSort(r)
        \/ DoInitialize(r)
        \/ DoStep(r)
        \/ DoDone(r)
        \/ DoBest(r)
        \/ DoWorst(r)
        \/ DoIndividual(r)
        \/ DoBestByRawScore(r)
        \/ DoWorstByRawScore(r)
        \/ DoGen(r)
        \/ DoGenRange(r)
        \/ DoReset(r)
        \/ DoReseed(r)

SpecGA == InitGA /\ [][NextGA]_vars

\* the driver alone: engines only, and of the calls only new, initialize,
\* step and done
InitLoop ==
    /\ pop = NewPopulation(<<>>, LowIsBest)
    /\ selector = NoSelector
    /\ gastats = NoStats
    /\ InitEngines

NextLoop ==
    \E r \in Runs :
        \/ DoNew(r)
        \/ DoInitialize(r)
        \/ DoStep(r)
        \/ DoDone(r)

\* the condition of the loop 'while not done: step' of run r holds: DoStep(r)
\* is enabled
StepEnabled(r) ==
    /\ ~ret.panic
    /\ Initialized(r)
    /\ ~DoneInternal(Unwrap(sga[r]))

\* the step just made was a DoStep(r)
StepTaken(r) == ret'.arg[r] = Append(ret.arg[r], "step")

\* the loop of each run goes on: weak fairness of DoStep(r), with its
\* enabling condition written out
LoopGoesOn ==
    \A r \in Runs : []<>(~StepEnabled(r)) \/ []<><<StepTaken(r)>>_vars

SpecLoop == InitLoop /\ [][NextLoop]_vars /\ LoopGoesOn

----------------------------------------------------------------------------
(* C17: determinism of the random contexts and of the engine *)

\* two contexts that were made from the same seed, or both unseeded
SameSeed(c, d) == c.seed = d.seed /\ c.seeded = d.seeded

\* two remembered sequences of draws agree: wherever the same calls were
\* made up to a position, the same value was returned there
DrawsAgree(l, m) ==
    \A i \in 1..Len(l) :
        (i <= Len(m) /\ \A j \in 1..i : l[j].op = m[j].op) => l[i].val = m[i].val

\* contexts of the same seed return the same values to the same calls,
\* whether they were just made or reseeded, or reset after any draws
SameSeedSameValues ==
    \A r \in DOMAIN ctx, q \in DOMAIN ctx :
        SameSeed(ctx[r], ctx[q]) => DrawsAgree(ret.arg[r].calls, ret.arg[q].calls)

\* a context counts the values drawn since it was made or reset
ReplaysFromStart ==
    \A r \in DOMAIN ctx : ctx[r].values_generated = Len(ret.arg[r].calls)

\* engines that were called the same way are the same, and engines at the
\* same generation hold the same population
SameCallsSameEngine ==
    \A r \in DOMAIN sga, q \in DOMAIN sga :
        /\ ret.arg[r] = ret.arg[q] => sga[r] = sga[q]
        /\ (/\ Initialized(r) /\ Initialized(q)
            /\ Unwrap(sga[r]).current_generation = Unwrap(sga[q]).current_generation)
           => Unwrap(sga[r]).population = Unwrap(sga[q]).population

C17_EnginesAtSameGeneration ==
    /\ DOMAIN sga = Runs
    /\ IsSome(args.factory)
    /\ Initialized(1) /\ Initialized(2)
    /\ Unwrap(sga[1]).current_generation = 2
    /\ Unwrap(sga[2]).current_generation = 2
    /\ Size(Unwrap(sga[1]).population) = 2
    /\ Unwrap(sga[1]).population.population
         # NewWithEvalCtx(args.cfg, args.factory, args.population).val[1].population.population

----------------------------------------------------------------------------
(* C18: the generation counter, the population size and the driver loop *)

\* the number of step calls remembered for run r
RECURSIVE CountSteps(_)
CountSteps(log) ==
    IF log = <<>> THEN 0
    ELSE (IF Head(log) = "step" THEN 1 ELSE 0) + CountSteps(Tail(log))

\* max(0, max_generations)
StepsToRun == IF args.cfg.max_generations > 0 THEN args.cfg.max_generations ELSE 0

\* the run that made the call that just returned is r, and the call was op
JustReturned(r, op) ==
    /\ ret'.op = op
    /\ ~ret'.panic
    /\ ret'.arg[r] # ret.arg[r]

\* a step adds exactly 1 to the counter, returns the new counter and leaves
\* the size of the population as it was
StepCountsOne ==
    \A r \in DOMAIN sga :
        JustReturned(r, "step") =>
            /\ Unwrap(sga'[r]).current_generation = Unwrap(sga[r]).current_generation + 1
            /\ ValOf(ret'.val) = Unwrap(sga'[r]).current_generation
            /\ Size(Unwrap(sga'[r]).population) = Size(Unwrap(sga[r]).population)

\* the counter is the number of steps made, the first step after initialize
\* returns 1, done() answers whether the counter reached max_generations,
\* and the loop makes max(0, max_generations) steps and no more
CounterAndDone ==
    \A r \in DOMAIN sga :
        Constructed(r) =>
            /\ Unwrap(sga[r]).current_generation = CountSteps(ret.arg[r])
            /\ (ret.op = "step" /\ ~ret.panic /\ RunOf(ret.val) = r /\ CountSteps(ret.arg[r]) = 1)
                  => ValOf(ret.val) = 1
            /\ (ret.op = "done" /\ RunOf(ret.val) = r)
                  => (ValOf(ret.val) <=>
                        Unwrap(sga[r]).current_generation >= args.cfg.max_generations)
            /\ CountSteps(ret.arg[r]) <= StepsToRun
            /\ (Initialized(r) /\ DoneInternal(Unwrap(sga[r])))
                  => CountSteps(ret.arg[r]) = StepsToRun

\* the loop of a run that was initialized comes to its end, unless a call
\* on the other run panics first
LoopTerminates ==
    \A r \in Runs :
        Initialized(r) ~> (ret.panic \/ (Constructed(r) /\ DoneInternal(Unwrap(sga[r]))))

\* C18: each step() adds exactly 1 to the generation counter and returns the
\* new value (1 for the first step after initialize), step() leaves the
\* population size unchanged, done() is true exactly when the counter is
\* >= max_generations, and the loop 'initialize; while not done: step' ends
\* after exactly max(0, max_generations) steps
C18_StepCountsAndLoopEnds ==
    /\ [][StepCountsOne]_vars
    /\ []CounterAndDone
    /\ LoopTerminates

\* a run whose second step just returned 2 and ended the loop, on a
\* population of two
C18_Witness ==
    /\ ret.op = "step"
    /\ ~ret.panic
    /\ ValOf(ret.val) = 2
    /\ CountSteps(ret.arg[RunOf(ret.val)]) = 2
    /\ DoneInternal(Unwrap(sga[RunOf(ret.val)]))
    /\ Size(Unwrap(sga[RunOf(ret.val)]).population) = 2

\* a run with max_generations = -1 whose loop ended without a step
C18_NoStepForNegative ==
    /\ args.cfg.max_generations = -1
    /\ Initialized(1)
    /\ ret.op = "done"
    /\ ret.val = Returned(1, "done", TRUE)
    /\ CountSteps(ret.arg[1]) = 0

----------------------------------------------------------------------------
(* C19: construction with neither a factory nor a population *)

\* neither a factory nor a population is given to new
MissingArgs == ~IsSome(args.factory) /\ ~IsSome(args.population)

\* C19: constructing a SimpleGeneticAlgorithm with neither a factory nor an
\* initial population aborts and yields no object; with a factory, or with
\* no factory but a population, construction succeeds with generation
\* counter 0
C19_Construction ==
    DOMAIN sga = Runs =>
        IF MissingArgs
        THEN /\ \A r \in Runs : ~Constructed(r)
             /\ ret.op = "new" => ret.panic
        ELSE /\ \A r \in Runs : ret.arg[r] # <<>> => Constructed(r)
             /\ ret.op = "new" =>
                   /\ ~ret.panic
                   /\ Constructed(RunOf(ret.val))
                   /\ Unwrap(sga[RunOf(ret.val)]).current_generation = 0

\* new was called with neither, and panicked
C19_Witness ==
    /\ DOMAIN sga = Runs
    /\ MissingArgs
    /\ ret.op = "new"
    /\ ret.panic
    /\ \A r \in Runs : ~Constructed(r)

\* new just returned the second engine, constructed from a population of two
\* and no factory
C19_FromPopulation ==
    /\ DOMAIN sga = Runs
    /\ ~IsSome(args.factory)
    /\ IsSome(args.population)
    /\ ret.op = "new"
    /\ ~ret.panic
    /\ Constructed(1) /\ Constructed(2)
    /\ Unwrap(sga[2]).current_generation = 0
    /\ Unwrap(sga[2]).population = Unwrap(args.population)
    /\ Size(Unwrap(sga[2]).population) = 2

----------------------------------------------------------------------------
(* C20: calls on a population of no individual *)

\* the engine of some run holds a population of no individual (the engines
\* are constructed from the same arguments: then all of them do)
ZeroSize ==
    \E r \in DOMAIN sga : Constructed(r) /\ Size(Unwrap(sga[r]).population) = 0

\* the ranking accessors
RankingCalls ==
    {"best", "worst", "individual", "best_by_raw_score", "worst_by_raw_score"}

\* on a population of no individual initialize panics and leaves the
\* engine as it was, and a ranking accessor panics
ZeroSizeAborts ==
    ZeroSize =>
        /\ ret'.op \in RankingCalls \cup {"initialize"} => ret'.panic
        /\ ret'.op = "initialize" => sga' = sga

\* C20: on a zero-size population initialize() aborts before evaluating or
\* sorting anything, and best, worst, individual, best_by_raw_score and
\* worst_by_raw_score abort rather than return an individual, whether or not
\* sort() was called first
C20_ZeroSizeAborts == [][ZeroSizeAborts]_vars

\* initialize panicked on a population of no individual that is still
\* not sorted
C20_Witness ==
    /\ ZeroSize
    /\ ret.op = "initialize"
    /\ ret.panic
    /\ \A r \in Runs : Constructed(r) /\ ~Unwrap(sga[r]).population.is_raw_sorted

\* worst panicked on a population of no individual that was sorted first
C20_SortedAccessorAborts ==
    /\ ZeroSize
    /\ ret.op = "worst"
    /\ ret.panic
    /\ \A r \in Runs : ret.arg[r] = <<"new", "sort">>
    /\ \A r \in Runs : Unwrap(sga[r]).population.is_fitness_sorted

\* best returned an individual of a population that is not empty
C20_NonEmptyAccessorReturns ==
    /\ DOMAIN sga = Runs
    /\ ~ZeroSize
    /\ ret.op = "best"
    /\ ~ret.panic
    /\ ValOf(ret.val) \in GAIndividuals

----------------------------------------------------------------------------
(* GAScaling: the scalers rewrite the fitness of every individual through *)
(* population(), the mutable reference to the backing vector              *)

\* the for loop of both scalers: set_fitness on every individual of the
\* vector; the rankings, their flags and the memoized statistics are not
\* reached through population()
SetFitnessOfAll(P, scaled) ==
    [P EXCEPT !.population = [i \in 1..Size(P) |-> Individual(P.population[i].raw, scaled[i])]]

\* a scaler that gives every individual the fitness of GATestIndividual::new
InverseScaling(P) ==
    SetFitnessOfAll(P, [i \in 1..Size(P) |-> FDiv(F(1), P.population[i].raw)])

\* GANoScaling::evaluate
NoScaling(P) ==
    SetFitnessOfAll(P, [i \in 1..Size(P) |-> P.population[i].raw])

GA_LINEAR_SCALING_MULTIPLIER == 2

\* GALinearScaling::prescale: the pair (a, b)
Prescale(multiplier, max, min, avg) ==
    LET m == F(multiplier)
    IN  IF FGt(min, FDiv(FSub(FMul(m, avg), max), FSub(m, F(1))))
        THEN LET delta == FSub(max, avg)
             IN  <<FDiv(FMul(FSub(m, F(1)), avg), delta),
                   FDiv(FMul(avg, FSub(max, FMul(m, avg))), delta)>>
        ELSE LET delta == FSub(avg, min)
             IN  <<FDiv(avg, delta),
                   FDiv(FMul(FMul(F(-1), min), avg), delta)>>

\* GALinearScaling::evaluate panics where best_by_raw_score or
\* worst_by_raw_score index out of bounds
LinearScalingPanics(P) ==
    ~(CanIndex(P, 0, Raw) /\ CanIndex(P, Size(P) - 1, Raw))

LinearScalingWith(P, ab) ==
    SetFitnessOfAll(P, [i \in 1..Size(P) |-> FAdd(FMul(ab[1], P.population[i].raw), ab[2])])

\* GALinearScaling::evaluate: max and min are the raw scores ranked best
\* and worst, avg is half their difference
LinearScaling(P) ==
    LinearScalingWith(P, Prescale(GA_LINEAR_SCALING_MULTIPLIER,
                                  BestByRawScore(P).raw,
                                  WorstByRawScore(P).raw,
                                  FDiv(FSub(BestByRawScore(P).raw, WorstByRawScore(P).raw), F(2))))

----------------------------------------------------------------------------
(* The evaluation specification: one GAPopulation under every call that *)
(* ranks it, replaces an individual or rescales it                       *)

\* the most individuals of a population that is rescaled
MaxEvalPop == 2

\* the individuals GATestIndividual::new makes
NewIndividualsOf(raw_scores) == {GATestIndividualNew(r) : r \in raw_scores}

InitEval ==
    /\ pop \in {NewPopulation(p, o) :
                   p \in SeqsUpTo(NewIndividualsOf(RawScores), MaxEvalPop),
                   o \in SortOrders}
    /\ ret = Ret("new", None, None)
    /\ selector = NoSelector
    /\ gastats = NoStats
    /\ NoEngine

\* GAPopulation::evaluate on GATestIndividual, whose evaluate is empty
DoEvaluate ==
    /\ ~ret.panic
    /\ pop' = Evaluate(pop)
    /\ ret' = Ret("evaluate", None, None)
    /\ UNCHANGED <<selector, gastats>>
    /\ UNCHANGED engine

\* swap_individual with an individual GATestIndividual::new made
DoSwapNewIndividual ==
    /\ ~ret.panic
    /\ \E c \in NewIndividualsOf(RawScores) :
          IF SwapCanRun(pop)
          THEN /\ pop' = SwapIndividual(pop, c)
               /\ ret' = Ret("swap_individual", c, None)
          ELSE /\ pop' = pop
               /\ ret' = Panic("swap_individual", c)
    /\ UNCHANGED <<selector, gastats>>
    /\ UNCHANGED engine

DoNoScaling ==
    /\ ~ret.panic
    /\ pop' = NoScaling(pop)
    /\ ret' = Ret("no_scaling", None, None)
    /\ UNCHANGED <<selector, gastats>>
    /\ UNCHANGED engine

DoLinearScaling ==
    /\ ~ret.panic
    /\ IF LinearScalingPanics(pop)
       THEN /\ pop' = pop
            /\ ret' = Panic("linear_scaling", None)
       ELSE /\ pop' = LinearScaling(pop)
            /\ ret' = Ret("linear_scaling", None, None)
    /\ UNCHANGED <<selector, gastats>>
    /\ UNCHANGED engine

NextEval ==
    \/ DoSort
    \/ DoForceSort
    \/ DoSetOrderAndSort
    \/ DoSwapNewIndividual
    \/ DoEvaluate
    \/ DoNoScaling
    \/ DoLinearScaling

SpecEval == InitEval /\ [][NextEval]_vars

----------------------------------------------------------------------------
(* C21: GANoScaling::evaluate *)

\* what a step that returns from GANoScaling::evaluate leaves
NoScalingSetsFitness ==
    ret'.op = "no_scaling" =>
        /\ Size(pop') = Size(pop)
        /\ pop'.sort_order = pop.sort_order
        /\ \A i \in 1..Size(pop) :
              /\ pop'.population[i].raw = pop.population[i].raw
              /\ pop'.population[i].fitness = pop'.population[i].raw

\* C21: NoScaling evaluate(pop) sets fitness = raw for every individual of
\* the population and leaves every raw score, the population size and the
\* sort order unchanged
C21_NoScaling == [][NoScalingSetsFitness]_vars

\* NoScaling has returned on two individuals of different raw scores, one
\* of which GATestIndividual::new gave another fitness than its raw score
C21_Witness ==
    /\ ret.op = "no_scaling"
    /\ Size(pop) = 2
    /\ pop.population[1].raw = F(2)
    /\ pop.population[2].raw = F(0)
    /\ \A i \in 1..2 : pop.population[i].fitness = pop.population[i].raw

----------------------------------------------------------------------------
(* C22: the rankings of a population whose sorted flags are set *)

\* C22: in every state reachable from new(individuals, order) by any
\* sequence of evaluate, sort, force_sort, swap_individual and
\* set_order_and_sort, both sorted flags are false right after new, and
\* whenever is_raw_sorted (resp. is_fitness_sorted) is true, the raw (resp.
\* fitness) ranking is a permutation of 0..size()-1
C22_FlagsAndPermutations ==
    /\ ret.op = "new" => ~pop.is_raw_sorted /\ ~pop.is_fitness_sorted
    /\ pop.is_raw_sorted => IsPermutation(pop.population_order_raw, Size(pop))
    /\ pop.is_fitness_sorted => IsPermutation(pop.population_order_fitness, Size(pop))

\* a sort has returned on two individuals, the first of them rescaled, that
\* it ranks in one order by raw score and in the other by fitness
C22_Witness ==
    /\ ret.op = "sort"
    /\ pop.is_raw_sorted
    /\ pop.is_fitness_sorted
    /\ pop.population_order_raw = <<1, 0>>
    /\ pop.population_order_fitness = <<0, 1>>
    /\ pop.population[1] # GATestIndividualNew(pop.population[1].raw)

\* a swap has cleared the flags and left the rankings of the last sort
C22_FlagsClearedBySwap ==
    /\ ret.op = "swap_individual"
    /\ ~pop.is_raw_sorted
    /\ ~pop.is_fitness_sorted
    /\ Len(pop.population_order_raw) = 2

----------------------------------------------------------------------------
(* The search specification: the while loop of                          *)
(* GARouletteWheelSelector::select, one iteration at a time, on a wheel *)
(* of any contents                                                      *)

\* the most slots of a wheel that is searched
MaxSlots == 4

\* what a slot may hold: proportions, and what a stale or mixed-sign wheel
\* holds in their place
SlotValues == {F(0), Norm(1, 2), F(1), F(-1), F(2), NaN}

\* the wheels of 1..MaxSlots slots
Wheels == UNION {[1..n -> SlotValues] : n \in 1..MaxSlots}

\* a ranked population of as many individuals as the wheel has slots
RankedPopulation(n) ==
    Sort(NewPopulation([i \in 1..n |-> GATestIndividualNew(F(i))], HighIsBest))

\* the locals of select before the loop: lower = 0, upper = wheel_slots-1;
\* probes are the indexes the loop has evaluated wheel_proportions at
SearchLocals(wheel, cutoff) ==
    [cutoff |-> cutoff, lower |-> 0, upper |-> Len(wheel) - 1, probes |-> <<>>]

InitSearch ==
    /\ selector \in {[GARouletteWheelSelectorNew(Raw, Len(w)) EXCEPT !.wheel_proportions = w] :
                        w \in Wheels}
    /\ pop = RankedPopulation(Len(selector.wheel_proportions))
    /\ ret \in {Ret("search", SearchLocals(selector.wheel_proportions, cutoff), None) :
                   cutoff \in Cutoffs}
    /\ gastats = NoStats
    /\ NoEngine

\* i = lower + (upper-lower)/2
Midpoint(lower, upper) == lower + (upper - lower) \div 2

\* an upper = i-1 without the test of i > 0
UpperBelowUnguarded(i) == i - 1

\* if i > 0 { upper = i-1 } else { upper = 0 }
UpperBelow(i) == IF i > 0 THEN i - 1 ELSE 0

\* one iteration of the loop on the locals l, after the assert on i
SearchIteration(wheel, l, i) ==
    IF FGt(wheel[i + 1], l.cutoff)
    THEN [l EXCEPT !.upper = UpperBelow(i), !.probes = Append(@, i)]
    ELSE [l EXCEPT !.lower = i + 1, !.probes = Append(@, i)]

\* the loop is entered: the assert fails, or the index of an unsigned
\* underflow is evaluated, where i is not a slot
DoSearchIteration ==
    /\ ~ret.panic
    /\ ret.op = "search"
    /\ ret.arg.upper > ret.arg.lower
    /\ \E i \in {Midpoint(ret.arg.lower, ret.arg.upper)} :
          IF 0 <= i /\ i < Len(selector.wheel_proportions)
          THEN ret' = Ret("search", SearchIteration(selector.wheel_proportions, ret.arg, i), None)
          ELSE ret' = Panic("search", [ret.arg EXCEPT !.probes = Append(@, i)])
    /\ UNCHANGED <<pop, selector, gastats>>
    /\ UNCHANGED engine

\* cmp::min(wheel_slots-1, lower)
Clamped(wheel, lower) == IF lower < Len(wheel) - 1 THEN lower ELSE Len(wheel) - 1

\* the loop is left: lower is clamped and the individual ranked there returned
DoSearchReturn ==
    /\ ~ret.panic
    /\ ret.op = "search"
    /\ ~(ret.arg.upper > ret.arg.lower)
    /\ \E lower \in {Clamped(selector.wheel_proportions, ret.arg.lower)} :
          IF CanIndex(pop, lower, selector.score_selection)
          THEN ret' = Ret("roulette_select", [ret.arg EXCEPT !.lower = lower],
                          Some(IndividualAt(pop, lower, selector.score_selection)))
          ELSE ret' = Panic("roulette_select", [ret.arg EXCEPT !.lower = lower])
    /\ UNCHANGED <<pop, selector, gastats>>
    /\ UNCHANGED engine

NextSearch ==
    \/ DoSearchIteration
    \/ DoSearchReturn

\* select runs on: while it has not returned or panicked it takes its next step
Searching == ~ret.panic /\ ret.op = "search"
SearchStepTaken == Len(ret'.arg.probes) > Len(ret.arg.probes) \/ ret'.op = "roulette_select"
SelectRunsOn == []<>(~Searching) \/ []<><<SearchStepTaken>>_vars

SpecSearch == InitSearch /\ [][NextSearch]_vars /\ SelectRunsOn

----------------------------------------------------------------------------
(* C23: the binary search of RouletteWheel select *)

\* the slots of the wheel, 0-based
Slots == 0..(Len(selector.wheel_proportions) - 1)

\* no assert has failed and no index, bound or result has left the wheel
SearchInBounds ==
    /\ ~ret.panic
    /\ \A k \in 1..Len(ret.arg.probes) : ret.arg.probes[k] \in Slots
    /\ ret.arg.lower >= 0
    /\ ret.arg.upper >= 0
    /\ ret.op = "roulette_select" =>
          /\ ret.arg.lower \in Slots
          /\ ret.arg.lower = RouletteWheelLower(selector.wheel_proportions, ret.arg.cutoff)

\* C23: for a wheel of n >= 1 slots with arbitrary contents and any cutoff
\* in [0,1), the binary search in RouletteWheel select terminates, never
\* evaluates an index outside [0, n-1] (the assertion i < wheel_slots never
\* fails, no unsigned underflow occurs) and returns a rank position in
\* [0, n-1]
C23_SearchInBoundsAndEnds == []SearchInBounds /\ <>(ret.op = "roulette_select")

\* a search of the all-zero wheel of MaxSlots slots that has returned the
\* last rank position after more than one iteration
C23_Witness ==
    /\ ret.op = "roulette_select"
    /\ Len(selector.wheel_proportions) = MaxSlots
    /\ \A k \in 1..MaxSlots : selector.wheel_proportions[k] = F(0)
    /\ Len(ret.arg.probes) > 1
    /\ ret.arg.lower = MaxSlots - 1

\* a search that has returned after it took the branch that lowers upper
\* at index 0
C23_UpperStaysAtZero ==
    /\ ret.op = "roulette_select"
    /\ Len(ret.arg.probes) > 0
    /\ ret.arg.probes[Len(ret.arg.probes)] = 0
    /\ FGt(selector.wheel_proportions[1], ret.arg.cutoff)
    /\ ret.arg.upper = 0

----------------------------------------------------------------------------
(* The merge specification: an Archive seeded by set_best and a population *)
(* that may hold the same individual twice, merged into it any number of   *)
(* times                                                                   *)

InitMerge ==
    /\ pop \in {NewPopulation(p, o) :
                   p \in SeqsUpTo(ArchiveIndividuals, MaxArchivePop), o \in SortOrders}
    /\ ret = Ret("new", None, None)
    /\ selector = NoSelector
    /\ gastats = GAStatisticsNew
    /\ NoEngine

\* set_best(seed) on the fresh tracker, the seed sorted and of pairwise
\* different individuals
DoSetBestSorted ==
    /\ ~ret.panic
    /\ gastats.cur_generation = 0
    /\ \E seed \in {Sort(NewPopulation(p, o)) :
                      p \in DistinctSeqsUpTo(ArchiveIndividuals, MaxArchivePop),
                      o \in SortOrders} :
          /\ gastats' = SetBest(gastats, seed)
          /\ ret' = Ret("set_best", None, None)
    /\ UNCHANGED <<pop, selector>>
    /\ UNCHANGED engine

NextMerge ==
    \/ DoSetBestSorted
    \/ DoUpdateBest
    \/ DoSort

SpecMerge == InitMerge /\ [][NextMerge]_vars

----------------------------------------------------------------------------
(* C24: update_best and value-equal individuals *)

\* no two individuals of the backing vector are equal
NoTwoEqual(P) ==
    \A i, j \in 1..Size(P) : i # j => ~IndEq(P.population[i], P.population[j])

\* an update_best that returned has left no two equal individuals in an
\* Archive that held none
KeepsNoTwoEqual ==
    (/\ ret.op = "update_best" /\ ~ret.panic
     /\ IsSome(ret.arg)
     /\ NoTwoEqual(ArchiveBefore)) =>
        /\ IsSome(gastats.alltime_best_pop)
        /\ NoTwoEqual(ArchiveAfter)

\* the individuals the raw ranking of the Archive of tracker G yields
Archived(G) == ScoreIterator(Unwrap(G.alltime_best_pop), Raw)

\* an update_best that follows an update_best with the same population
\* leaves the individuals of the Archive and their ranking as they were
SecondMergeChangesNothing ==
    (/\ ret.op = "update_best" /\ ~ret.panic
     /\ ret'.op = "update_best" /\ ~ret'.panic
     /\ pop' = pop
     /\ IsSome(gastats.alltime_best_pop)) =>
        /\ IsSome(gastats'.alltime_best_pop)
        /\ Unwrap(gastats'.alltime_best_pop).population =
              Unwrap(gastats.alltime_best_pop).population
        /\ Archived(gastats') = Archived(gastats)

\* C24: update_best never inserts a candidate that is identical
\* (value-equal) to an individual already in the Archive: if the Archive
\* holds no two equal individuals before the call it holds none after it,
\* and calling update_best a second time with the same incoming population
\* leaves the Archive's individuals unchanged
C24_NoDuplicateInsertion == []KeepsNoTwoEqual /\ [][SecondMergeChangesNothing]_vars

\* a merge of a population that holds one individual twice, better than
\* both archived individuals: it is in the Archive once, with the better of
\* the two that were there
C24_Witness ==
    /\ ret.op = "update_best" /\ ~ret.panic
    /\ IsSome(ret.arg)
    /\ Size(ArchiveBefore) = 2
    /\ NoTwoEqual(ArchiveBefore)
    /\ Size(pop) = 2
    /\ pop.population[1] = pop.population[2]
    /\ ArchiveAfter.sort_order = ArchiveBefore.sort_order
    /\ pop.population[1] \notin Range(ArchiveBefore.population)
    /\ BestByRawScore(ArchiveAfter) = pop.population[1]
    /\ WorstByRawScore(ArchiveAfter) = BestByRawScore(ArchiveBefore)

\* a second merge of a population whose best individual the first merge put
\* into the Archive, and that is still better than the Archive's worst
C24_SecondMergeSkips ==
    /\ ret.op = "update_best" /\ ~ret.panic
    /\ IsSome(ret.arg)
    /\ Size(ArchiveBefore) = 2
    /\ ArchiveBefore.population = ArchiveAfter.population
    /\ Size(pop) > 0
    /\ BothSorted(pop)
    /\ pop.sort_order = ArchiveBefore.sort_order
    /\ BestByRawScore(pop) \in Range(ArchiveBefore.population)
    /\ StrictlyBetter(pop.sort_order, BestByRawScore(pop).raw, WorstByRawScore(ArchiveBefore).raw)

----------------------------------------------------------------------------
(* C25: the widths of the slots of the wheel *)

\* the width of the slot at rank position i - 1: wheel[i] - wheel[i-1],
\* with wheel[-1] = 0
SlotWidth(wheel, i) == IF i = 1 THEN wheel[1] ELSE FSub(wheel[i], wheel[i - 1])

WidthsNonIncreasing(wheel) ==
    \A i \in 1..(Len(wheel) - 1) : FGe(SlotWidth(wheel, i), SlotWidth(wheel, i + 1))

\* update has returned on a population of single-signed view-scores that
\* are not all equal
UpdatedSingleSigned ==
    /\ ret.op = "roulette_update" /\ ~ret.panic
    /\ Size(pop) > 0
    /\ SingleSigned(pop, selector.score_selection)
    /\ Cardinality(ViewScores(pop, selector.score_selection)) > 1

\* C25: after RouletteWheel update(pop) on a population with single-signed,
\* not-all-equal view-scores, the slot width wheel[i] - wheel[i-1]
\* (wheel[-1] = 0) is non-increasing in the rank position i, so rank 0 (the
\* best) has the widest slot, for both HighIsBest and LowIsBest and for both
\* all-non-negative and all-non-positive scores
C25_BetterRankWiderSlot ==
    UpdatedSingleSigned => WidthsNonIncreasing(selector.wheel_proportions)

\* what does hold: the same where the view-scores are finite and all >= 0
\* and the sign test of update accepts them
C25_WiderSlotNonNegative ==
    (/\ UpdatedSingleSigned
     /\ \A x \in ViewScores(pop, selector.score_selection) : IsFinite(x) /\ FGe(x, F(0))
     /\ SingleSignedTest(MaxScore(selector.score_selection, pop),
                         MinScore(selector.score_selection, pop))) =>
        WidthsNonIncreasing(selector.wheel_proportions)

\* raw scores 0 and -1 ranked HighIsBest: the sign test accepts them and the
\* best has a slot of width 0, the worst the whole wheel
C25_WorstHasWholeWheel ==
    /\ UpdatedSingleSigned
    /\ pop.sort_order = HighIsBest
    /\ selector.score_selection = Raw
    /\ Yielded(pop, Raw) = <<F(0), F(-1)>>
    /\ selector.wheel_proportions = <<F(0), F(1)>>

----------------------------------------------------------------------------
(* C26: the update of the wheel on scores its sign test rejects *)

\* the view-scores of the ranked population P are not all equal and fail
\* the sign test of update
ScoresRejected(P, s) ==
    /\ CanIndex(P, 0, s)
    /\ CanIndex(P, Size(P) - 1, s)
    /\ ~FEq(MaxScore(s, P), MinScore(s, P))
    /\ ~SingleSignedTest(MaxScore(s, P), MinScore(s, P))

\* what a step of update on such scores leaves
RejectedLeavesSlots ==
    (/\ ret'.op = "roulette_update"
     /\ ScoresRejected(Sort(pop), selector.score_selection)) =>
        /\ ~ret'.panic
        /\ pop' = Sort(pop)
        /\ Len(selector'.wheel_proportions) = Size(pop)
        /\ \A i \in 1..Len(selector.wheel_proportions) :
              i <= Size(pop) => selector'.wheel_proportions[i] = selector.wheel_proportions[i]

\* C26: when RouletteWheel update(pop) sees scores that match neither the
\* all-equal case nor the single-signed condition (max>0 && min>=0, or
\* max<=0 && min<0, with max/min the best/worst view-score), it sorts the
\* population and resizes the wheel to size() slots but leaves the values of
\* the existing slots exactly as they were before the call, and raises no
\* error
C26_RejectedScoresLeaveWheel == [][RejectedLeavesSlots]_vars

\* an update under LowIsBest on raw scores 0 and 2, whose best is 0, has
\* returned and left the slots an update under HighIsBest had written
C26_Witness ==
    /\ ret.op = "roulette_update" /\ ~ret.panic
    /\ selector.score_selection = Raw
    /\ pop.sort_order = LowIsBest
    /\ BothSorted(pop)
    /\ ScoresRejected(pop, Raw)
    /\ Yielded(pop, Raw) = <<F(0), F(2)>>
    /\ selector.wheel_proportions = <<F(1), F(1)>>

\* an update on mixed-sign scores has returned with a wheel it has cut from
\* MaxPop slots to the two of the population
C26_MixedSignResized ==
    /\ ret.op = "roulette_update" /\ ~ret.panic
    /\ ScoresRejected(pop, selector.score_selection)
    /\ ViewScores(pop, selector.score_selection) = {F(-1), F(2)}
    /\ Size(pop) = 2
    /\ selector.wheel_proportions = <<F(0), F(0)>>

----------------------------------------------------------------------------
(* The memo specification: one GAPopulation whose statistics are read *)
(* between the calls that rank it and replace its worst individual    *)

NextMemo ==
    \/ DoSort
    \/ DoSetOrderAndSort
    \/ DoSwapNewIndividual
    \/ DoStatistics

SpecMemo == InitEval /\ [][NextMemo]_vars

----------------------------------------------------------------------------
(* C27: the memoized statistics and the individuals *)

\* C27: in every state reachable by any sequence of statistics, sort,
\* swap_individual and set_order_and_sort on a non-empty population, the
\* value returned by statistics() equals the direct computation over the
\* population's current individuals (in particular after a swap_individual
\* that replaced the worst individual)
C27_StatisticsCoherent ==
    (ret.op = "statistics" /\ Size(pop) > 0) =>
        ret.val = Some(ComputeStats(pop.population))

\* what does hold: a statistics() that found no memo returns the direct
\* computation
C27_FirstStatisticsCoherent ==
    (ret.op = "statistics" /\ Size(pop) > 0 /\ ret.arg = FALSE) =>
        ret.val = Some(ComputeStats(pop.population))

\* statistics() has returned the memo of raw scores 2 and -1 on a LowIsBest
\* population whose worst, raw score 2, a swap has replaced by raw score -1
C27_StaleAfterSwap ==
    /\ ret.op = "statistics"
    /\ ret.arg = TRUE
    /\ pop.sort_order = LowIsBest
    /\ pop.population = <<GATestIndividualNew(F(-1)), GATestIndividualNew(F(-1))>>
    /\ Unwrap(ret.val).raw_sum = F(1)
    /\ ComputeStats(pop.population).raw_sum = F(-2)

----------------------------------------------------------------------------
(* C28: the sorted flags and the scores the rankings were built from *)

\* the ranking of P on a basis lists the individuals best to worst by the
\* score they have now
RanksCurrentScores(P, basis) ==
    /\ IsPermutation(OrderOf(P, basis), Size(P))
    /\ \A i \in 1..(Size(P) - 1) :
          NotWorse(P.sort_order, Yielded(P, basis)[i], Yielded(P, basis)[i + 1])

\* C28: in every state reachable by any sequence of sort, force_sort,
\* evaluate, swap_individual, set_order_and_sort and Scaler evaluate
\* (NoScaling or LinearScaling), whenever is_fitness_sorted is true the
\* fitness ordering lists the individuals best-to-worst by their current
\* fitness, and whenever is_raw_sorted is true the raw ordering lists them
\* best-to-worst by their current raw score
C28_FlagsNeverStale ==
    /\ pop.is_fitness_sorted => RanksCurrentScores(pop, Fitness)
    /\ pop.is_raw_sorted => RanksCurrentScores(pop, Raw)

\* what does hold: the raw ranking of a set flag, which no scaler touches
C28_RawFlagNeverStale ==
    pop.is_raw_sorted => RanksCurrentScores(pop, Raw)

\* NoScaling has returned on a HighIsBest population ranked by the fitness
\* 1/raw: the flag is set and the individual ranked best has the worse
\* fitness
C28_StaleAfterNoScaling ==
    /\ ret.op = "no_scaling"
    /\ pop.sort_order = HighIsBest
    /\ pop.is_fitness_sorted
    /\ pop.population = <<Individual(F(0), F(0)), Individual(F(2), F(2))>>
    /\ pop.population_order_fitness = <<0, 1>>

\* LinearScaling has returned on a LowIsBest population of raw scores -1
\* and 2: finite fitness scores, ranked worst first under a set flag
C28_StaleAfterLinearScaling ==
    /\ ret.op = "linear_scaling" /\ ~ret.panic
    /\ pop.sort_order = LowIsBest
    /\ pop.is_fitness_sorted
    /\ pop.population = <<Individual(F(-1), F(-3)), Individual(F(2), F(-12))>>
    /\ pop.population_order_fitness = <<0, 1>>

----------------------------------------------------------------------------
(* C29: the generation counter and the per-generation history *)

\* the population of the last call that was handed a non-empty one
LastRecorded(log) == Recorded(log)[Len(Recorded(log))].pop

\* C29: in every state reachable by any sequence of set_best and update
\* calls on a fresh tracker (including set_best called more than once and
\* calls with empty populations), cur_generation equals the number of
\* entries in the per-generation history, so
\* generation_statistics(cur_generation) is the statistics of the most
\* recently recorded population
C29_CounterIsHistoryLength ==
    ~ret.panic =>
        /\ gastats.cur_generation = Len(gastats.hist_stats)
        /\ Len(Recorded(ret.arg)) > 0 =>
              GenerationStatistics(gastats, gastats.cur_generation) =
                  StatisticsVal(LastRecorded(ret.arg))

\* what does hold: the history has one entry for every call with a
\* non-empty population, the last of them for the last such call, and the
\* counter is never above their number
C29_HistoryIsEveryRecorded ==
    ~ret.panic =>
        /\ Len(gastats.hist_stats) = Len(Recorded(ret.arg))
        /\ gastats.cur_generation <= Len(gastats.hist_stats)
        /\ Len(Recorded(ret.arg)) > 0 =>
              GenerationStatistics(gastats, Len(gastats.hist_stats)) =
                  StatisticsVal(LastRecorded(ret.arg))

\* set_best called twice with populations of different statistics: the
\* counter is 1, the history has two entries, and generation 1 is the
\* population of the first call
C29_SetBestTwice ==
    /\ ~ret.panic
    /\ Len(ret.arg) = 2
    /\ ret.arg[1].op = "set_best" /\ NonEmptyCall(ret.arg[1])
    /\ ret.arg[2].op = "set_best" /\ NonEmptyCall(ret.arg[2])
    /\ StatisticsVal(ret.arg[1].pop) # StatisticsVal(ret.arg[2].pop)
    /\ gastats.cur_generation = 1
    /\ Len(gastats.hist_stats) = 2
    /\ GenerationStatistics(gastats, 1) = StatisticsVal(ret.arg[1].pop)

----------------------------------------------------------------------------
(* C30: elitism *)

\* the individuals the loop of step_internal creates from the engine ga,
\* whose population initialize or the step before has sorted
NewlyProduced(ga) ==
    NewIndividuals(Size(ga.population),
                   RouletteWheelProportions(
                       GARouletteWheelSelectorNew(Raw, Size(ga.population)).wheel_proportions,
                       Raw, ga.population),
                   ga.population, ga.config.probability_crossover, ga.rng_ctx, <<>>).inds

\* what a step that returns leaves of the best fitness, with elitism, and
\* of the population, without
StepKeepsBest ==
    \A r \in DOMAIN sga :
        JustReturned(r, "step") =>
            /\ BothSorted(Unwrap(sga[r]).population)
            /\ BothSorted(Unwrap(sga'[r]).population)
            /\ Unwrap(sga[r]).config.elitism =>
                  NotWorse(Unwrap(sga'[r]).population.sort_order,
                           BestByFitnessScore(Unwrap(sga'[r]).population).fitness,
                           BestByFitnessScore(Unwrap(sga[r]).population).fitness)
            /\ ~Unwrap(sga[r]).config.elitism =>
                  Unwrap(sga'[r]).population.population = NewlyProduced(Unwrap(sga[r]))

\* C30: with elitism enabled, across any number of step() calls of the
\* Simple GA the fitness of the population's best-by-fitness individual
\* after a step is never worse (per sort_order) than the best fitness before
\* that step, whatever individuals selection, crossover and mutation
\* produced; with elitism disabled the new generation consists only of the
\* newly produced individuals
C30_ElitismKeepsBest == [][StepKeepsBest]_vars

\* the population handed to new: raw scores 1/2 and -1, whose wheel update
\* leaves all zero, so that every select returns the worst by raw score
MixedSignPopulation(order) ==
    NewPopulation(<<GATestIndividualNew(Norm(1, 2)), GATestIndividualNew(F(-1))>>, order)

\* the first step of run 1 on that population under HighIsBest, with
\* elitism: the individual of fitness 2, which was not selected, is ranked
\* best, next to one of the two of fitness -1 that were
C30_Witness ==
    /\ args.population = Some(MixedSignPopulation(HighIsBest))
    /\ args.cfg.elitism
    /\ ret.op = "step" /\ ~ret.panic
    /\ RunOf(ret.val) = 1
    /\ ValOf(ret.val) = 1
    /\ BothSorted(Unwrap(sga[1]).population)
    /\ ScoreIterator(Unwrap(sga[1]).population, Fitness) =
          <<GATestIndividualNew(Norm(1, 2)), GATestIndividualNew(F(-1))>>

\* the same step without elitism: both individuals are the selected one
C30_WithoutElitism ==
    /\ args.population = Some(MixedSignPopulation(HighIsBest))
    /\ ~args.cfg.elitism
    /\ ret.op = "step" /\ ~ret.panic
    /\ RunOf(ret.val) = 1
    /\ ValOf(ret.val) = 1
    /\ Unwrap(sga[1]).population.population =
          <<GATestIndividualNew(F(-1)), GATestIndividualNew(F(-1))>>

====
